---- MODULE Spec2Model ----
(***************************************************************************)
(* HTML-diff: the tokenizers, the LCS alignments (look-ahead coalescing,   *)
(* prefer-insert, attribute-aware), the side-by-side change grouper and    *)
(* the load handlers of the two side-by-side viewers.                      *)
(*                                                                         *)
(* A JavaScript string is a sequence of one-character strings; a token is  *)
(* such a sequence; an operation ['equal', v] is the tuple <<"equal", v>>. *)
(* Indices i, j are the code's 0-based indices: the code's A[i] is A[i+1]. *)
(***************************************************************************)
EXTENDS Integers, Sequences, FiniteSets, TLC

VARIABLES
  baselineHTML,     \* the baseline string handed to the operation
  currentHTML,      \* the current string handed to the operation
  call,             \* the operation that has acted ("none" before any)
  toks,             \* the token contents a tokenizer call returned
  diff,             \* the operation list of the last diff (a local of the code)
  view,             \* the viewer page: "blank", "rendered", "fallback", "nodata"
  baselinePane,     \* baselinePane.innerHTML, as a sequence of segments
  currentPane,      \* currentPane.innerHTML, as a sequence of segments
  allChanges,       \* global allChanges
  filteredChanges,  \* global filteredChanges
  currentIndex,     \* global currentIndex
  fullBaselineHTML, \* global fullBaselineHTML (second side-by-side viewer)
  fullCurrentHTML,  \* global fullCurrentHTML (second side-by-side viewer)
  highlight,        \* the ids of the elements that carry the class highlight
  searchValue,      \* searchInput.value
  loop,             \* the locals of a diffTokens call that is under way
  storage,          \* chrome.storage.local: baselines, baselineData, currentData
  procs,            \* the handler runs of the popup and the list screen in flight
  tabs,             \* the viewer tabs
  listed,           \* the URLs the list screen shows a Delete button for
  messageBox,       \* messageBoxEl.textContent of the popup
  clock,            \* Date.now()
  events            \* the user's clicks and reloads so far

\* the extension around the viewers: storage and the pages that use it
extVars == <<storage, procs, tabs, listed, messageBox, clock, events>>

vars == <<baselineHTML, currentHTML, call, toks, diff, view, baselinePane,
          currentPane, allChanges, filteredChanges, currentIndex,
          fullBaselineHTML, fullCurrentHTML, highlight, searchValue, loop,
          extVars>>

----------------------------------------------------------------------------
(* Bounds and input sets                                                   *)

\* longest single string handed to the tokenizers alone
MaxLen == 4
\* most pieces concatenated into one side of a baseline/current pair
MaxPieces == 3

\* characters of the single strings: every class the tokenizer regexes tell apart
Chars == {"<", ">", "a", "/", " ", "&", "=", "\""}

\* pieces the pairs are built of: a tag, a word, a punctuation run, a lone '<'
Pieces == {<<"<", "a", ">">>, <<"a">>, <<"&">>, <<"<">>}

\* the documented examples: an attribute change, <img src="1.png"> against
\* <img src="2.png">, and a pure insertion, <div id="a">Hello</div> against
\* <div id="a">Hello World</div>; and a comment whose text changed,
\* <!--a--> against <!--b-->
ImgBaseline ==
  <<"<", "i", "m", "g", " ", "s", "r", "c", "=", "\"", "1", ".", "p", "n",
    "g", "\"", ">">>
ImgCurrent ==
  <<"<", "i", "m", "g", " ", "s", "r", "c", "=", "\"", "2", ".", "p", "n",
    "g", "\"", ">">>
DivBaseline ==
  <<"<", "d", "i", "v", " ", "i", "d", "=", "\"", "a", "\"", ">", "H", "e",
    "l", "l", "o", "<", "/", "d", "i", "v", ">">>
DivCurrent ==
  <<"<", "d", "i", "v", " ", "i", "d", "=", "\"", "a", "\"", ">", "H", "e",
    "l", "l", "o", " ", "W", "o", "r", "l", "d", "<", "/", "d", "i", "v",
    ">">>
CommentBaseline == <<"<", "!", "-", "-", "a", "-", "-", ">">>
CommentCurrent == <<"<", "!", "-", "-", "b", "-", "-", ">">>
Examples ==
  {<<ImgBaseline, ImgCurrent>>, <<DivBaseline, DivCurrent>>,
   <<CommentBaseline, CommentCurrent>>}

RECURSIVE StringsOver(_, _)
StringsOver(alphabet, k) ==
  IF k = 0 THEN {<<>>}
  ELSE LET shorter == StringsOver(alphabet, k - 1)
       IN shorter \cup {Append(s, c) : s \in shorter, c \in alphabet}

RECURSIVE PieceStrings(_)
PieceStrings(k) ==
  IF k = 0 THEN {<<>>}
  ELSE LET shorter == PieceStrings(k - 1)
       IN shorter \cup {s \o p : s \in shorter, p \in Pieces}

----------------------------------------------------------------------------
(* Character classes of the regexes                                        *)

\* the upper-case letters that occur, and their lower-case forms
UpperCase == {"A", "B", "H", "W"}
LowerOf(c) ==
  CASE c = "A" -> "a" [] c = "B" -> "b" [] c = "H" -> "h" [] c = "W" -> "w"
    [] OTHER -> c

\* \w, restricted to the letters and digits that occur
IsWord(c) ==
  c \in {"a", "b", "c", "d", "e", "g", "h", "i", "l", "m", "n", "o", "p", "r",
         "s", "t", "v", "w", "1", "2", "_"} \cup UpperCase
\* \s
IsSpace(c) == c \in {" ", "\n", "\t"}
\* ["']
IsQuote(c) == c \in {"\"", "'"}
\* [^\w\s<>]
IsPunct(c) == ~IsWord(c) /\ ~IsSpace(c) /\ c # "<" /\ c # ">"

Max(a, b) == IF a >= b THEN a ELSE b

\* Array.prototype.join(''): the concatenation of a sequence of strings
RECURSIVE Join(_)
Join(ts) == IF ts = <<>> THEN <<>> ELSE Head(ts) \o Join(Tail(ts))

\* A.slice(from, to) with 0-based from (inclusive) and to (exclusive)
Slice(A, from, to) == SubSeq(A, from + 1, to)

\* membership of a character in a named character class of the regexes
InClass(cls, c) ==
  CASE cls = "word"     -> IsWord(c)
    [] cls = "space"    -> IsSpace(c)
    [] cls = "punct"    -> IsPunct(c)
    [] cls = "quote"    -> IsQuote(c)
    [] cls = "gt"       -> c = ">"
    [] cls = "notlt"    -> c # "<"

\* last index q >= p such that s[p..q] all lie in the class (p - 1 when none)
RECURSIVE RunEnd(_, _, _)
RunEnd(s, p, cls) ==
  IF p <= Len(s) /\ InClass(cls, s[p]) THEN RunEnd(s, p + 1, cls) ELSE p - 1

\* first index q >= p with s[q] in the class, 0 when there is none
RECURSIVE FirstAt(_, _, _)
FirstAt(s, p, cls) ==
  IF p > Len(s) THEN 0
  ELSE IF InClass(cls, s[p]) THEN p ELSE FirstAt(s, p + 1, cls)

----------------------------------------------------------------------------
(* Tokenizers                                                              *)

\* alternative 1, <[^>]+>, at a '<' at p: the index of the closing '>', or 0
TagEnd(s, p) ==
  LET q == FirstAt(s, p + 1, "gt")
  IN IF q > p + 1 THEN q ELSE 0

\* alternative 2, \w+(?:=["'][^"']*["'])?, at a word character at p
WordTokenEnd(s, p) ==
  LET w == RunEnd(s, p, "word")
  IN IF w + 2 <= Len(s) /\ s[w + 1] = "=" /\ IsQuote(s[w + 2])
     THEN LET r == FirstAt(s, w + 3, "quote")
          IN IF r # 0 THEN r ELSE w
     ELSE w

\* the end of the match of the token regex that starts at p, or 0 when no
\* alternative matches there
MatchEnd(s, p) ==
  LET c == s[p]
  IN IF c = "<" THEN TagEnd(s, p)
     ELSE IF IsWord(c) THEN WordTokenEnd(s, p)
     ELSE IF IsSpace(c) THEN RunEnd(s, p, "space")
     ELSE IF IsPunct(c) THEN RunEnd(s, p, "punct")
     ELSE 0

\* str.match(re) || [] with the global flag: the successive matches from p on;
\* a character at which nothing matches is passed over
RECURSIVE MatchAll(_, _)
MatchAll(s, p) ==
  IF p > Len(s) THEN <<>>
  ELSE LET e == MatchEnd(s, p)
       IN IF e = 0 THEN MatchAll(s, p + 1)
          ELSE <<SubSeq(s, p, e)>> \o MatchAll(s, e + 1)

\* tokenize of the side-by-side viewers
tokenize(str) == SelectSeq(MatchAll(str, 1), LAMBDA token : token # <<>>)

\* tokenize of the merged view
tokenizeMerged(str) == MatchAll(str, 1)

\* null
Null == <<>>

\* String.prototype.toLowerCase
toLowerCase(s) == [k \in 1..Len(s) |-> LowerOf(s[k])]

\* token.trim(): without the leading and the trailing whitespace
RECURSIVE trim(_)
trim(s) ==
  IF s = <<>> THEN s
  ELSE IF IsSpace(Head(s)) THEN trim(Tail(s))
  ELSE IF IsSpace(s[Len(s)]) THEN trim(SubSeq(s, 1, Len(s) - 1))
  ELSE s

startsWith(s, prefix) ==
  Len(s) >= Len(prefix) /\ SubSeq(s, 1, Len(prefix)) = prefix

\* tag.match(/<\/?(\w+)/), searched from position k on: the captured name
RECURSIVE TagNameFrom(_, _)
TagNameFrom(tag, k) ==
  IF k > Len(tag) THEN Null
  ELSE IF tag[k] = "<" /\ k + 1 <= Len(tag) /\ IsWord(tag[k + 1])
       THEN SubSeq(tag, k + 1, RunEnd(tag, k + 1, "word"))
  ELSE IF tag[k] = "<" /\ k + 2 <= Len(tag) /\ tag[k + 1] = "/" /\ IsWord(tag[k + 2])
       THEN SubSeq(tag, k + 2, RunEnd(tag, k + 2, "word"))
  ELSE TagNameFrom(tag, k + 1)

getTagName(tag) ==
  LET name == TagNameFrom(tag, 1)
  IN IF name = Null THEN Null ELSE toLowerCase(name)

\* the end of the match of /<[^>]+>|[^<]+/ that starts at p, or 0
HTMLMatchEnd(s, p) ==
  IF s[p] = "<" THEN TagEnd(s, p) ELSE RunEnd(s, p, "notlt")

HTMLToken(token) ==
  [content      |-> token,
   isTag        |-> startsWith(token, <<"<">>),
   isClosingTag |-> startsWith(token, <<"<", "/">>),
   tagName      |-> IF startsWith(token, <<"<">>) THEN getTagName(token) ELSE Null]

\* the regex.exec loop of tokenizeHTML from p on
RECURSIVE tokenizeHTMLFrom(_, _)
tokenizeHTMLFrom(s, p) ==
  IF p > Len(s) THEN <<>>
  ELSE LET e == HTMLMatchEnd(s, p)
       IN IF e = 0 THEN tokenizeHTMLFrom(s, p + 1)
          ELSE LET token == SubSeq(s, p, e)
               IN (IF trim(token) # <<>> THEN <<HTMLToken(token)>> ELSE <<>>)
                  \o tokenizeHTMLFrom(s, e + 1)

tokenizeHTML(str) == tokenizeHTMLFrom(str, 1)

\* the .content of each token of a sequence of tokenizeHTML tokens
Contents(tokens) == [k \in 1..Len(tokens) |-> tokens[k].content]

----------------------------------------------------------------------------
(* Alignment: the LCS table and the three backtracks                       *)

\* the dp table over two sequences of token contents: dp[i, j] is the LCS
\* length of A[i..] and B[j..] (0-based)
LcsTable(A, B) ==
  LET n == Len(A)
      m == Len(B)
      dp[i \in 0..n, j \in 0..m] ==
        IF i = n \/ j = m THEN 0
        ELSE IF A[i + 1] = B[j + 1] THEN 1 + dp[i + 1, j + 1]
        ELSE Max(dp[i + 1, j], dp[i, j + 1])
  IN dp

\* mutant: the comparison reversed
LookAheadTakesDelete_Reversed(dp, i, j, iEnd, jEnd) == dp[iEnd + 1, j] < dp[i, jEnd + 1]

\* the look-ahead's choice: TRUE advances iEnd, FALSE advances jEnd
LookAheadTakesDelete(dp, i, j, iEnd, jEnd) == dp[iEnd + 1, j] > dp[i, jEnd + 1]

\* mutant: the look-ahead stops after one token
LookAhead_OneToken(A, B, dp, i, j, iEnd, jEnd) ==
  IF iEnd < Len(A) /\ jEnd < Len(B) /\ A[iEnd + 1] # B[jEnd + 1]
  THEN IF LookAheadTakesDelete(dp, i, j, iEnd, jEnd)
       THEN <<iEnd + 1, jEnd>>
       ELSE <<iEnd, jEnd + 1>>
  ELSE <<iEnd, jEnd>>

\* the look-ahead loop of the coalescing backtrack: <<iEnd, jEnd>> at its exit
RECURSIVE LookAhead(_, _, _, _, _, _, _)
LookAhead(A, B, dp, i, j, iEnd, jEnd) ==
  IF iEnd < Len(A) /\ jEnd < Len(B) /\ A[iEnd + 1] # B[jEnd + 1]
  THEN IF LookAheadTakesDelete(dp, i, j, iEnd, jEnd)
       THEN LookAhead(A, B, dp, i, j, iEnd + 1, jEnd)
       ELSE LookAhead(A, B, dp, i, j, iEnd, jEnd + 1)
  ELSE <<iEnd, jEnd>>

\* mutant: the added run is not pushed
BlockOps_NoInsert(A, B, i, j, iEnd, jEnd) ==
  LET deleted == Join(Slice(A, i, iEnd))
  IN IF deleted # <<>> THEN << <<"delete", deleted>> >> ELSE <<>>

\* the operations pushed for the block A[i..iEnd-1] / B[j..jEnd-1]
BlockOps(A, B, i, j, iEnd, jEnd) ==
  LET deleted == Join(Slice(A, i, iEnd))
      added   == Join(Slice(B, j, jEnd))
  IN (IF deleted # <<>> THEN << <<"delete", deleted>> >> ELSE <<>>)
     \o (IF added # <<>> THEN << <<"insert", added>> >> ELSE <<>>)

\* mutant: the tails lose their last token
TailOps_ShortTail(A, B, i, j) ==
  (IF i < Len(A) THEN << <<"delete", Join(Slice(A, i, Len(A) - 1))>> >> ELSE <<>>)
  \o (IF j < Len(B) THEN << <<"insert", Join(Slice(B, j, Len(B) - 1))>> >> ELSE <<>>)

\* the operations pushed after the main loop
TailOps(A, B, i, j) ==
  (IF i < Len(A) THEN << <<"delete", Join(Slice(A, i, Len(A)))>> >> ELSE <<>>)
  \o (IF j < Len(B) THEN << <<"insert", Join(Slice(B, j, Len(B)))>> >> ELSE <<>>)

\* the coalescing backtrack from (i, j) on
RECURSIVE Backtrack(_, _, _, _, _)
Backtrack(A, B, dp, i, j) ==
  IF i < Len(A) /\ j < Len(B)
  THEN IF A[i + 1] = B[j + 1]
       THEN << <<"equal", A[i + 1]>> >> \o Backtrack(A, B, dp, i + 1, j + 1)
       ELSE LET e == LookAhead(A, B, dp, i, j, i, j)
            IN BlockOps(A, B, i, j, e[1], e[2]) \o Backtrack(A, B, dp, e[1], e[2])
  ELSE TailOps(A, B, i, j)

\* diffTokens of the side-by-side viewers, on the token sequences
diffTokenSeqs(A, B) ==
  Backtrack(A, B, LcsTable(A, B), 0, 0)

\* diffTokens of the side-by-side viewers
diffTokens(aStr, bStr) == diffTokenSeqs(tokenize(aStr), tokenize(bStr))

\* mutant: a tie goes to the deletion
PrefersInsert_Strict(dp, n, m, i, j) ==
  IF j < m THEN (IF i = n THEN TRUE ELSE dp[i, j + 1] > dp[i + 1, j]) ELSE FALSE

\* the prefer-insert test: j < m && (i === n || dp[i][j + 1] >= dp[i + 1][j])
PrefersInsert(dp, n, m, i, j) ==
  IF j < m THEN (IF i = n THEN TRUE ELSE dp[i, j + 1] >= dp[i + 1, j]) ELSE FALSE

\* mutant: the deletion tested before the insertion
MergedBranch_DeleteFirst(A, B, dp, i, j) ==
  LET n == Len(A)
      m == Len(B)
  IN IF i < n /\ j < m /\ A[i + 1] = B[j + 1] THEN "equal"
     ELSE IF i < n THEN "delete"
     ELSE IF j < m THEN "insert"
     ELSE "none"

\* the branch the merged view's loop body takes at (i, j); "none" is an
\* iteration in which no branch is taken
MergedBranch(A, B, dp, i, j) ==
  LET n == Len(A)
      m == Len(B)
  IN IF i < n /\ j < m /\ A[i + 1] = B[j + 1] THEN "equal"
     ELSE IF PrefersInsert(dp, n, m, i, j) THEN "insert"
     ELSE IF i < n THEN "delete"
     ELSE "none"

\* the prefer-insert backtrack of the merged view from (i, j) on
RECURSIVE MergedBacktrack(_, _, _, _, _)
MergedBacktrack(A, B, dp, i, j) ==
  IF i < Len(A) \/ j < Len(B)
  THEN LET branch == MergedBranch(A, B, dp, i, j)
       IN CASE branch = "equal" ->
                 << <<"equal", A[i + 1]>> >> \o MergedBacktrack(A, B, dp, i + 1, j + 1)
            [] branch = "insert" ->
                 << <<"insert", B[j + 1]>> >> \o MergedBacktrack(A, B, dp, i, j + 1)
            [] branch = "delete" ->
                 << <<"delete", A[i + 1]>> >> \o MergedBacktrack(A, B, dp, i + 1, j)
            [] branch = "none" -> << <<"spin", <<>>>> >>
  ELSE <<>>

\* diffTokens of the merged view
diffTokensMerged(aStr, bStr) ==
  LET A == tokenizeMerged(aStr)
      B == tokenizeMerged(bStr)
  IN MergedBacktrack(A, B, LcsTable(A, B), 0, 0)

\* mutant: the contents compared for equality
isAttributeModification_SameContent(oldToken, newToken) ==
  IF ~oldToken.isTag \/ ~newToken.isTag \/ oldToken.isClosingTag \/ newToken.isClosingTag
  THEN FALSE
  ELSE oldToken.tagName = newToken.tagName /\ oldToken.content = newToken.content

isAttributeModification(oldToken, newToken) ==
  IF ~oldToken.isTag \/ ~newToken.isTag \/ oldToken.isClosingTag \/ newToken.isClosingTag
  THEN FALSE
  ELSE oldToken.tagName = newToken.tagName /\ oldToken.content # newToken.content

\* mutant: the branches tested in another order, the addition first
HTMLBranch_AddFirst(baseTokens, currentTokens, dp, i, j) ==
  LET n == Len(baseTokens)
      m == Len(currentTokens)
  IN IF PrefersInsert(dp, n, m, i, j) THEN "add"
     ELSE IF i < n /\ j < m /\ baseTokens[i + 1].content = currentTokens[j + 1].content
     THEN "equal"
     ELSE IF i < n /\ j < m
             /\ isAttributeModification(baseTokens[i + 1], currentTokens[j + 1])
     THEN "modify"
     ELSE IF i < n THEN "delete"
     ELSE "none"

\* the branch the loop body of diffHTMLTokens takes at (i, j)
HTMLBranch(baseTokens, currentTokens, dp, i, j) ==
  LET n == Len(baseTokens)
      m == Len(currentTokens)
  IN IF i < n /\ j < m /\ baseTokens[i + 1].content = currentTokens[j + 1].content
     THEN "equal"
     ELSE IF i < n /\ j < m
             /\ isAttributeModification(baseTokens[i + 1], currentTokens[j + 1])
     THEN "modify"
     ELSE IF PrefersInsert(dp, n, m, i, j) THEN "add"
     ELSE IF i < n THEN "delete"
     ELSE "none"

\* mutant: a modify carries the baseline tag
RECURSIVE HTMLBacktrack_ModifyBaseline(_, _, _, _, _)
HTMLBacktrack_ModifyBaseline(baseTokens, currentTokens, dp, i, j) ==
  IF i < Len(baseTokens) \/ j < Len(currentTokens)
  THEN LET branch == HTMLBranch(baseTokens, currentTokens, dp, i, j)
       IN CASE branch = "equal" ->
                 << <<"equal", currentTokens[j + 1].content>> >>
                 \o HTMLBacktrack_ModifyBaseline(baseTokens, currentTokens, dp, i + 1, j + 1)
            [] branch = "modify" ->
                 << <<"modify", baseTokens[i + 1].content>> >>
                 \o HTMLBacktrack_ModifyBaseline(baseTokens, currentTokens, dp, i + 1, j + 1)
            [] branch = "add" ->
                 << <<"add", currentTokens[j + 1].content>> >>
                 \o HTMLBacktrack_ModifyBaseline(baseTokens, currentTokens, dp, i, j + 1)
            [] branch = "delete" ->
                 << <<"delete", baseTokens[i + 1].content>> >>
                 \o HTMLBacktrack_ModifyBaseline(baseTokens, currentTokens, dp, i + 1, j)
            [] branch = "none" -> << <<"spin", <<>>>> >>
  ELSE <<>>

\* the backtrack of diffHTMLTokens from (i, j) on
RECURSIVE HTMLBacktrack(_, _, _, _, _)
HTMLBacktrack(baseTokens, currentTokens, dp, i, j) ==
  IF i < Len(baseTokens) \/ j < Len(currentTokens)
  THEN LET branch == HTMLBranch(baseTokens, currentTokens, dp, i, j)
       IN CASE branch = "equal" ->
                 << <<"equal", currentTokens[j + 1].content>> >>
                 \o HTMLBacktrack(baseTokens, currentTokens, dp, i + 1, j + 1)
            [] branch = "modify" ->
                 << <<"modify", currentTokens[j + 1].content>> >>
                 \o HTMLBacktrack(baseTokens, currentTokens, dp, i + 1, j + 1)
            [] branch = "add" ->
                 << <<"add", currentTokens[j + 1].content>> >>
                 \o HTMLBacktrack(baseTokens, currentTokens, dp, i, j + 1)
            [] branch = "delete" ->
                 << <<"delete", baseTokens[i + 1].content>> >>
                 \o HTMLBacktrack(baseTokens, currentTokens, dp, i + 1, j)
            [] branch = "none" -> << <<"spin", <<>>>> >>
  ELSE <<>>

diffHTMLTokens(baselineStr, currentStr) ==
  LET baseTokens    == tokenizeHTML(baselineStr)
      currentTokens == tokenizeHTML(currentStr)
  IN HTMLBacktrack(baseTokens, currentTokens,
                   LcsTable(Contents(baseTokens), Contents(currentTokens)), 0, 0)

----------------------------------------------------------------------------
(* Escaping and the side-by-side change grouper                            *)

\* String.prototype.replace(/ch/g, rep)
RECURSIVE ReplaceAll(_, _, _)
ReplaceAll(s, ch, rep) ==
  IF s = <<>> THEN <<>>
  ELSE (IF Head(s) = ch THEN rep ELSE <<Head(s)>>) \o ReplaceAll(Tail(s), ch, rep)

\* mutant: '&' replaced last, after the '<' and '>' entities were written
esc_AmpLast(s) ==
  IF s = <<>> THEN <<>>
  ELSE ReplaceAll(ReplaceAll(ReplaceAll(s, "<", <<"&", "l", "t", ";">>),
                             ">", <<"&", "g", "t", ";">>),
                  "&", <<"&", "a", "m", "p", ";">>)

esc(s) ==
  IF s = <<>> THEN <<>>
  ELSE ReplaceAll(ReplaceAll(ReplaceAll(s, "&", <<"&", "a", "m", "p", ";">>),
                             "<", <<"&", "l", "t", ";">>),
                  ">", <<"&", "g", "t", ";">>)

\* `change-${changeCounter}-del` and `change-${changeCounter}-add`
ChangeId(changeCounter, side) == [n |-> changeCounter, side |-> side]
NoId == [n |-> -1, side |-> ""]

\* A pane's markup is the in-order concatenation of its segments: a span
\* segment is <span class="cls" id="id">text</span>, a text segment is text.
Span(cls, id, text) == [tag |-> "span", class |-> cls, id |-> id, text |-> text]
Text(text) == [tag |-> "", class |-> "", id |-> NoId, text |-> text]
Nbsp == <<"&", "n", "b", "s", "p", ";">>

Change(type, delId, addId) == [type |-> type, delId |-> delId, addId |-> addId]

\* the branch for a delete followed by an insert
ChangeBranch(acc, value, nextValue) ==
  LET delId == ChangeId(acc.changeCounter, "del")
      addId == ChangeId(acc.changeCounter, "add")
  IN [acc EXCEPT
       !.baselineContent = Append(@, Span("diff-deleted", delId, esc(value))),
       !.currentContent  = Append(@, Span("diff-added", addId, esc(nextValue))),
       !.allChanges      = Append(@, Change("change", delId, addId)),
       !.changeCounter   = @ + 1]

\* the branch for any other delete
DeleteBranch(acc, value) ==
  LET delId == ChangeId(acc.changeCounter, "del")
      addId == ChangeId(acc.changeCounter, "add")
  IN [acc EXCEPT
       !.baselineContent = Append(@, Span("diff-deleted", delId, esc(value))),
       !.currentContent  = Append(@, Span("diff-placeholder", addId, Nbsp)),
       !.allChanges      = Append(@, Change("delete", delId, addId)),
       !.changeCounter   = @ + 1]

\* the insert branch of the first viewer: escapedDelValue and escapedAddValue
\* are block-scoped constants of the delete+insert branch and are not in scope
\* here, so evaluating the first template literal throws a ReferenceError
\* before anything is appended
InsertBranch(acc, value) == [acc EXCEPT !.threw = TRUE]

\* the insert branch of the second viewer
InsertBranch2(acc, value) ==
  LET addId == ChangeId(acc.changeCounter, "add")
      delId == ChangeId(acc.changeCounter, "del")
  IN [acc EXCEPT
       !.baselineContent = Append(@, Span("diff-placeholder", delId, Nbsp)),
       !.currentContent  = Append(@, Span("diff-added", addId, esc(value))),
       !.allChanges      = Append(@, Change("insert", delId, addId)),
       !.changeCounter   = @ + 1]

\* the branch for an equal operation
EqualBranch(acc, value) ==
  [acc EXCEPT !.baselineContent = Append(@, Text(esc(value))),
              !.currentContent  = Append(@, Text(esc(value)))]

\* whether the operation at 0-based index i is a delete followed by an insert
IsPairedDelete(ops, i) ==
  ops[i + 1][1] = "delete" /\ i + 1 < Len(ops) /\ ops[i + 2][1] = "insert"

\* the for loop of renderSideBySide from index i on; script tells the two
\* viewers apart, which differ in the insert branch alone
RECURSIVE RenderLoop(_, _, _, _)
RenderLoop(script, ops, i, acc) ==
  IF acc.threw \/ ~(i < Len(ops)) THEN acc
  ELSE LET type  == ops[i + 1][1]
           value == ops[i + 1][2]
       IN IF IsPairedDelete(ops, i)
          THEN RenderLoop(script, ops, i + 2, ChangeBranch(acc, value, ops[i + 2][2]))
          ELSE IF type = "delete"
          THEN RenderLoop(script, ops, i + 1, DeleteBranch(acc, value))
          ELSE IF type = "insert"
          THEN RenderLoop(script, ops, i + 1,
                          IF script = "compare_view" THEN InsertBranch(acc, value)
                          ELSE InsertBranch2(acc, value))
          ELSE RenderLoop(script, ops, i + 1, EqualBranch(acc, value))

\* the locals and allChanges when the loop ends or throws
RenderResult(script, ops) ==
  RenderLoop(script, ops, 0,
             [threw |-> FALSE, baselineContent |-> <<>>, currentContent |-> <<>>,
              allChanges |-> <<>>, changeCounter |-> 0])

----------------------------------------------------------------------------
(* The state machine                                                       *)

\* no diffTokens call under way: fn the function, pc the place in it, A, B,
\* dp, i, j, iEnd, jEnd and diff its locals, steps the loop iterations made
LoopIdle ==
  [fn |-> "", pc |-> "idle", A |-> <<>>, B |-> <<>>, dp |-> <<>>,
   i |-> 0, j |-> 0, iEnd |-> 0, jEnd |-> 0, steps |-> 0, diff |-> <<>>]

\* undefined, as the value of a missing property
Undefined == <<"undefined">>

\* a storage key or a key of the baselines object that is not there
NoRecord == [absent |-> TRUE]

\* the object {} as a map from URLs to records
EmptyMap == [u \in {} |-> NoRecord]

\* storage with nothing in it
EmptyStorage ==
  [baselines |-> EmptyMap, baselineData |-> NoRecord, currentData |-> NoRecord]

\* no page of the extension is open and nothing is stored
NoExtension ==
  /\ storage = EmptyStorage
  /\ procs = <<>>
  /\ tabs = <<>>
  /\ listed = {}
  /\ messageBox = ""
  /\ clock = 1
  /\ events = 0

Init ==
  /\ \/ /\ baselineHTML \in StringsOver(Chars, MaxLen)
        /\ currentHTML = <<>>
     \/ /\ baselineHTML \in PieceStrings(MaxPieces)
        /\ currentHTML \in PieceStrings(MaxPieces)
     \/ \E example \in Examples :
          /\ baselineHTML = example[1]
          /\ currentHTML = example[2]
  /\ call = "none"
  /\ toks = <<>>
  /\ diff = <<>>
  /\ view = "blank"
  /\ baselinePane = <<>>
  /\ currentPane = <<>>
  /\ allChanges = <<>>
  /\ filteredChanges = <<>>
  /\ currentIndex = -1
  /\ fullBaselineHTML = <<>>
  /\ fullCurrentHTML = <<>>
  /\ highlight = {}
  /\ searchValue = <<>>
  /\ loop = LoopIdle
  /\ NoExtension

viewerVars == <<view, baselinePane, currentPane, allChanges, filteredChanges,
                currentIndex, fullBaselineHTML, fullCurrentHTML, highlight,
                searchValue>>

\* tokenize(baselineHTML), side-by-side viewers
Tokenize ==
  /\ call = "none"
  /\ call' = "tokenize"
  /\ toks' = tokenize(baselineHTML)
  /\ UNCHANGED <<baselineHTML, currentHTML, diff, viewerVars, loop, extVars>>

\* tokenize(baselineHTML), merged view
TokenizeMerged ==
  /\ call = "none"
  /\ call' = "tokenizeMerged"
  /\ toks' = tokenizeMerged(baselineHTML)
  /\ UNCHANGED <<baselineHTML, currentHTML, diff, viewerVars, loop, extVars>>

\* tokenizeHTML(baselineHTML), attribute-aware merged view
TokenizeHTML ==
  /\ call = "none"
  /\ call' = "tokenizeHTML"
  /\ toks' = tokenizeHTML(baselineHTML)
  /\ UNCHANGED <<baselineHTML, currentHTML, diff, viewerVars, loop, extVars>>

\* diffTokens(baselineHTML, currentHTML), side-by-side viewers
DiffTokens ==
  /\ call = "none"
  /\ call' = "diffTokens"
  /\ diff' = diffTokens(baselineHTML, currentHTML)
  /\ UNCHANGED <<baselineHTML, currentHTML, toks, viewerVars, loop, extVars>>

\* diffTokens(baselineHTML, currentHTML), merged view
DiffTokensMerged ==
  /\ call = "none"
  /\ call' = "diffTokensMerged"
  /\ diff' = diffTokensMerged(baselineHTML, currentHTML)
  /\ UNCHANGED <<baselineHTML, currentHTML, toks, viewerVars, loop, extVars>>

\* diffHTMLTokens(baselineHTML, currentHTML), attribute-aware merged view
DiffHTMLTokens ==
  /\ call = "none"
  /\ call' = "diffHTMLTokens"
  /\ diff' = diffHTMLTokens(baselineHTML, currentHTML)
  /\ UNCHANGED <<baselineHTML, currentHTML, toks, viewerVars, loop, extVars>>

\* s.includes(sub)
Includes(s, sub) ==
  \E k \in 0..(Len(s) - Len(sub)) : SubSeq(s, k + 1, k + Len(sub)) = sub

\* the character U+00A0 that &nbsp; stands for
NbspChar == "nbsp"

\* the text of a piece of markup esc wrote, or of the placeholder: the
\* entities read back as the characters they stand for
RECURSIVE Decode(_)
Decode(s) ==
  IF s = <<>> THEN <<>>
  ELSE IF startsWith(s, <<"&", "a", "m", "p", ";">>)
       THEN <<"&">> \o Decode(SubSeq(s, 6, Len(s)))
  ELSE IF startsWith(s, <<"&", "l", "t", ";">>)
       THEN <<"<">> \o Decode(SubSeq(s, 5, Len(s)))
  ELSE IF startsWith(s, <<"&", "g", "t", ";">>)
       THEN <<">">> \o Decode(SubSeq(s, 5, Len(s)))
  ELSE IF startsWith(s, Nbsp)
       THEN <<NbspChar>> \o Decode(SubSeq(s, 7, Len(s)))
  ELSE <<Head(s)>> \o Decode(Tail(s))

\* document.getElementById(id): the span segments of the two panes with that id
ElementsById(base, cur, id) ==
  SelectSeq(base \o cur, LAMBDA seg : seg.tag = "span" /\ seg.id = id)

\* el ? el.textContent.toLowerCase() : ''
LowerTextOf(base, cur, id) ==
  LET els == ElementsById(base, cur, id)
  IN IF els = <<>> THEN <<>> ELSE toLowerCase(Decode(els[1].text))

\* updateNavigation: every highlight is removed, then the elements of
\* filteredChanges[currentIndex] that exist get the class
Highlighted(changes, index, base, cur) ==
  IF index >= 0 /\ index < Len(changes)
  THEN {id \in {changes[index + 1].delId, changes[index + 1].addId} :
          ElementsById(base, cur, id) # <<>>}
  ELSE {}

\* document.evaluate throws a SyntaxError for an expression that is not an
\* XPath expression: here '//' with no step after it
XPathSyntaxError(expression) ==
  LET rest == SubSeq(expression, 3, Len(expression))
  IN rest = <<>> \/ ~(IsWord(rest[1]) \/ rest[1] \in {"*", "@", "."})

\* node.outerHTML.toLowerCase() of nodes an XPath query may select
MatchTexts ==
  {<<"<", "a", ">", "<", "/", "a", ">">>, <<"<", "a", ">", "a", "<", "/", "a", ">">>}

\* isMatch of filterAndNavigate for one change: plain text mode, or XPath mode
\* (the first viewer asks whether the text includes a match, the second
\* whether a match includes the text)
IsMatch(script, mode, term, allMatches, base, cur, change) ==
  LET delText == LowerTextOf(base, cur, change.delId)
      addText == LowerTextOf(base, cur, change.addId)
  IN IF mode = "plain"
     THEN Includes(delText, toLowerCase(term)) \/ Includes(addText, toLowerCase(term))
     ELSE /\ ElementsById(base, cur, change.delId) # <<>>
             \/ ElementsById(base, cur, change.addId) # <<>>
          /\ \E match \in allMatches :
               IF script = "compare_view"
               THEN Includes(delText, match) \/ Includes(addText, match)
               ELSE Includes(match, delText) \/ Includes(match, addText)

\* allChanges.filter(change => isMatch)
FilterChanges(script, mode, term, allMatches, base, cur, changes) ==
  SelectSeq(changes,
            LAMBDA change : IsMatch(script, mode, term, allMatches, base, cur, change))

\* pane.textContent = message
Message(message) == [tag |-> "#text", class |-> "", id |-> NoId, text |-> <<message>>]

\* The storage callback of a side-by-side viewer's DOMContentLoaded handler,
\* given baselineData.html = baselineHTML and currentData.html = currentHTML:
\* the guards on empty strings, then renderSideBySide inside try/catch.
\* renderSideBySide resets allChanges, pushes to it inside the loop, and only
\* after the loop assigns the panes and filteredChanges; updateNavigation with
\* currentIndex = -1 highlights nothing.
LoadViewer(script) ==
  /\ call = "none"
  /\ call' = script
  /\ UNCHANGED <<baselineHTML, currentHTML, toks, currentIndex, searchValue, loop,
                 extVars>>
  /\ IF baselineHTML = <<>>
     THEN /\ baselinePane' = <<Message("No baseline HTML was found for this URL.")>>
          /\ view' = "nodata"
          /\ UNCHANGED <<diff, currentPane, allChanges, filteredChanges,
                         fullBaselineHTML, fullCurrentHTML, highlight>>
     ELSE IF currentHTML = <<>>
     THEN /\ currentPane' = <<Message("No current HTML captured in this session.")>>
          /\ view' = "nodata"
          /\ UNCHANGED <<diff, baselinePane, allChanges, filteredChanges,
                         fullBaselineHTML, fullCurrentHTML, highlight>>
     ELSE LET ops == diffTokens(baselineHTML, currentHTML)
              r   == RenderResult(script, ops)
          IN /\ diff' = ops
             /\ allChanges' = r.allChanges
             /\ IF script = "compare_view"
                THEN UNCHANGED <<fullBaselineHTML, fullCurrentHTML>>
                ELSE /\ fullBaselineHTML' = baselineHTML
                     /\ fullCurrentHTML' = currentHTML
             /\ IF r.threw
                THEN /\ baselinePane' = <<Text(esc(baselineHTML))>>
                     /\ currentPane' = <<Text(esc(currentHTML))>>
                     /\ view' = "fallback"
                     /\ UNCHANGED <<filteredChanges, highlight>>
                ELSE /\ baselinePane' = r.baselineContent
                     /\ currentPane' = r.currentContent
                     /\ filteredChanges' = r.allChanges
                     /\ highlight' = Highlighted(r.allChanges, currentIndex,
                                                 r.baselineContent, r.currentContent)
                     /\ view' = "rendered"

\* DOMContentLoaded of the first side-by-side viewer
DOMContentLoaded == LoadViewer("compare_view")

\* DOMContentLoaded of the second side-by-side viewer
DOMContentLoaded2 == LoadViewer("compare_view2")

Next ==
  \/ Tokenize
  \/ TokenizeMerged
  \/ TokenizeHTML
  \/ DiffTokens
  \/ DiffTokensMerged
  \/ DiffHTMLTokens
  \/ DOMContentLoaded
  \/ DOMContentLoaded2

Spec == Init /\ [][Next]_vars

----------------------------------------------------------------------------
(* Navigation and filtering in the side-by-side viewers                    *)

\* what the user types into the search box: nothing, blanks, a word, a
\* punctuation mark, a word in capitals, '//' on the way to an XPath query,
\* an XPath query
SearchValues ==
  {<<>>, <<" ">>, <<"a">>, <<"&">>, <<" ", "A">>, <<"/", "/">>, <<"/", "/", "a">>}

\* the viewers' pages
Viewers == {"compare_view", "compare_view2"}

\* nextBtn click
NextClick ==
  /\ call \in Viewers
  /\ IF currentIndex < Len(filteredChanges) - 1
     THEN /\ currentIndex' = currentIndex + 1
          /\ highlight' = Highlighted(filteredChanges, currentIndex + 1,
                                      baselinePane, currentPane)
     ELSE UNCHANGED <<currentIndex, highlight>>
  /\ UNCHANGED <<baselineHTML, currentHTML, call, toks, diff, view, baselinePane,
                 currentPane, allChanges, filteredChanges, fullBaselineHTML,
                 fullCurrentHTML, searchValue, loop, extVars>>

\* prevBtn click
PrevClick ==
  /\ call \in Viewers
  /\ IF currentIndex > 0
     THEN /\ currentIndex' = currentIndex - 1
          /\ highlight' = Highlighted(filteredChanges, currentIndex - 1,
                                      baselinePane, currentPane)
     ELSE UNCHANGED <<currentIndex, highlight>>
  /\ UNCHANGED <<baselineHTML, currentHTML, call, toks, diff, view, baselinePane,
                 currentPane, allChanges, filteredChanges, fullBaselineHTML,
                 fullCurrentHTML, searchValue, loop, extVars>>

\* input event of the search box with the box holding value:
\* filterAndNavigate. An XPath query that document.evaluate rejects throws
\* out of the handler before anything is assigned.
SearchInput(value) ==
  /\ call \in Viewers
  /\ value # searchValue
  /\ searchValue' = value
  /\ LET searchTerm == trim(value)
     IN IF searchTerm = <<>>
        THEN /\ filteredChanges' = allChanges
             /\ currentIndex' = -1
             /\ highlight' = Highlighted(allChanges, -1, baselinePane, currentPane)
        ELSE IF startsWith(searchTerm, <<"/", "/">>)
        THEN IF XPathSyntaxError(searchTerm)
             THEN UNCHANGED <<filteredChanges, currentIndex, highlight>>
             ELSE \E allMatches \in SUBSET MatchTexts :
                    /\ filteredChanges' =
                         FilterChanges(call, "xpath", searchTerm, allMatches,
                                       baselinePane, currentPane, allChanges)
                    /\ currentIndex' = -1
                    /\ highlight' = Highlighted(filteredChanges', -1,
                                                baselinePane, currentPane)
        ELSE /\ filteredChanges' =
                  FilterChanges(call, "plain", searchTerm, {},
                                baselinePane, currentPane, allChanges)
             /\ currentIndex' = -1
             /\ highlight' = Highlighted(filteredChanges', -1, baselinePane, currentPane)
  /\ UNCHANGED <<baselineHTML, currentHTML, call, toks, diff, view, baselinePane,
                 currentPane, allChanges, fullBaselineHTML, fullCurrentHTML, loop,
                 extVars>>

NavNext ==
  \/ DOMContentLoaded
  \/ DOMContentLoaded2
  \/ NextClick
  \/ PrevClick
  \/ \E value \in SearchValues : SearchInput(value)

NavSpec == Init /\ [][NavNext]_vars

----------------------------------------------------------------------------
(* The backtracks of the two diffTokens, one loop iteration at a time      *)

\* the token arrays A and B of the call under way
LoopA == loop.A
LoopB == loop.B

\* the dp table as the filled array of arrays
FilledTable(A, B) ==
  LET dp == LcsTable(A, B)
  IN [cell \in (0..Len(A)) \X (0..Len(B)) |-> dp[cell[1], cell[2]]]

\* the locals once the tokens and the dp table are there: i = 0, j = 0
LoopBegun(fn, pc, A, B) ==
  [LoopIdle EXCEPT !.fn = fn, !.pc = pc, !.A = A, !.B = B, !.dp = FilledTable(A, B)]

\* the condition of the look-ahead loop
LookAheadCond(A, B, iEnd, jEnd) ==
  iEnd < Len(A) /\ jEnd < Len(B) /\ A[iEnd + 1] # B[jEnd + 1]

\* mutant: an insertion leaves j where it is
MergedAdvance_InsertStalls(branch, i, j) ==
  CASE branch = "equal"  -> <<i + 1, j + 1>>
    [] branch = "insert" -> <<i, j>>
    [] branch = "delete" -> <<i + 1, j>>
    [] OTHER             -> <<i, j>>

\* the indices after an iteration of the merged view's loop took the branch
MergedAdvance(branch, i, j) ==
  CASE branch = "equal"  -> <<i + 1, j + 1>>
    [] branch = "insert" -> <<i, j + 1>>
    [] branch = "delete" -> <<i + 1, j>>
    [] OTHER             -> <<i, j>>

\* the operation an iteration of the merged view's loop pushes
MergedOp(branch, A, B, i, j) ==
  CASE branch = "equal"  -> << <<"equal", A[i + 1]>> >>
    [] branch = "insert" -> << <<"insert", B[j + 1]>> >>
    [] branch = "delete" -> << <<"delete", A[i + 1]>> >>
    [] OTHER             -> <<>>

\* An iteration is counted in steps; a call that has made more iterations
\* than there are tokens is not followed further.
WithinBudget == loop.steps <= Len(LoopA) + Len(LoopB)

\* diffTokens(baselineHTML, currentHTML) of a side-by-side viewer is called:
\* tokenize, the dp table, let i = 0, j = 0
CallDiffTokens ==
  /\ call = "none"
  /\ loop.pc = "idle"
  /\ \E A \in {tokenize(baselineHTML)}, B \in {tokenize(currentHTML)} :
       loop' = LoopBegun("diffTokens", "outer", A, B)
  /\ UNCHANGED <<baselineHTML, currentHTML, call, toks, diff, viewerVars, extVars>>

\* an iteration of the outer loop on equal tokens
OuterEqual ==
  /\ loop.fn = "diffTokens" /\ loop.pc = "outer" /\ WithinBudget
  /\ loop.i < Len(LoopA) /\ loop.j < Len(LoopB)
  /\ LoopA[loop.i + 1] = LoopB[loop.j + 1]
  /\ loop' = [loop EXCEPT !.diff = Append(@, <<"equal", LoopA[loop.i + 1]>>),
                          !.i = @ + 1, !.j = @ + 1, !.steps = @ + 1]
  /\ UNCHANGED <<baselineHTML, currentHTML, call, toks, diff, viewerVars, extVars>>

\* an iteration of the outer loop on unequal tokens begins: let iEnd = i, jEnd = j
OuterBlock ==
  /\ loop.fn = "diffTokens" /\ loop.pc = "outer" /\ WithinBudget
  /\ loop.i < Len(LoopA) /\ loop.j < Len(LoopB)
  /\ LoopA[loop.i + 1] # LoopB[loop.j + 1]
  /\ loop' = [loop EXCEPT !.iEnd = loop.i, !.jEnd = loop.j, !.pc = "lookahead"]
  /\ UNCHANGED <<baselineHTML, currentHTML, call, toks, diff, viewerVars, extVars>>

\* an iteration of the look-ahead loop
LookAheadStep ==
  /\ loop.pc = "lookahead" /\ WithinBudget
  /\ LookAheadCond(LoopA, LoopB, loop.iEnd, loop.jEnd)
  /\ IF LookAheadTakesDelete(loop.dp, loop.i, loop.j, loop.iEnd, loop.jEnd)
     THEN loop' = [loop EXCEPT !.iEnd = @ + 1, !.steps = @ + 1]
     ELSE loop' = [loop EXCEPT !.jEnd = @ + 1, !.steps = @ + 1]
  /\ UNCHANGED <<baselineHTML, currentHTML, call, toks, diff, viewerVars, extVars>>

\* the look-ahead loop has ended: the block is pushed, i = iEnd, j = jEnd
BlockEnd ==
  /\ loop.pc = "lookahead"
  /\ ~LookAheadCond(LoopA, LoopB, loop.iEnd, loop.jEnd)
  /\ loop' = [loop EXCEPT
                !.diff = @ \o BlockOps(LoopA, LoopB, loop.i, loop.j, loop.iEnd, loop.jEnd),
                !.i = loop.iEnd, !.j = loop.jEnd, !.pc = "outer"]
  /\ UNCHANGED <<baselineHTML, currentHTML, call, toks, diff, viewerVars, extVars>>

\* the outer loop has ended: the tails are pushed and diff is returned
ReturnDiffTokens ==
  /\ loop.fn = "diffTokens" /\ loop.pc = "outer"
  /\ ~(loop.i < Len(LoopA) /\ loop.j < Len(LoopB))
  /\ loop' = [loop EXCEPT !.diff = @ \o TailOps(LoopA, LoopB, loop.i, loop.j),
                          !.pc = "done"]
  /\ diff' = loop'.diff
  /\ call' = "diffTokens"
  /\ UNCHANGED <<baselineHTML, currentHTML, toks, viewerVars, extVars>>

\* diffTokens(baselineHTML, currentHTML) of the merged view is called
CallDiffTokensMerged ==
  /\ call = "none"
  /\ loop.pc = "idle"
  /\ \E A \in {tokenizeMerged(baselineHTML)}, B \in {tokenizeMerged(currentHTML)} :
       loop' = LoopBegun("diffTokensMerged", "merged", A, B)
  /\ UNCHANGED <<baselineHTML, currentHTML, call, toks, diff, viewerVars, extVars>>

\* an iteration of the merged view's loop
MergedStep ==
  /\ loop.pc = "merged" /\ WithinBudget
  /\ loop.i < Len(LoopA) \/ loop.j < Len(LoopB)
  /\ LET branch == MergedBranch(LoopA, LoopB, loop.dp, loop.i, loop.j)
         next   == MergedAdvance(branch, loop.i, loop.j)
     IN loop' = [loop EXCEPT
                   !.diff = @ \o MergedOp(branch, LoopA, LoopB, loop.i, loop.j),
                   !.i = next[1], !.j = next[2], !.steps = @ + 1]
  /\ UNCHANGED <<baselineHTML, currentHTML, call, toks, diff, viewerVars, extVars>>

\* the merged view's loop has ended and diff is returned
ReturnDiffTokensMerged ==
  /\ loop.pc = "merged"
  /\ ~(loop.i < Len(LoopA) \/ loop.j < Len(LoopB))
  /\ loop' = [loop EXCEPT !.pc = "done"]
  /\ diff' = loop.diff
  /\ call' = "diffTokensMerged"
  /\ UNCHANGED <<baselineHTML, currentHTML, toks, viewerVars, extVars>>

\* the steps of a call that is under way
LoopRun ==
  \/ OuterEqual
  \/ OuterBlock
  \/ LookAheadStep
  \/ BlockEnd
  \/ ReturnDiffTokens
  \/ MergedStep
  \/ ReturnDiffTokensMerged

LoopNext ==
  \/ CallDiffTokens
  \/ CallDiffTokensMerged
  \/ LoopRun

\* Whether a call is made is up to the caller; a call that has begun runs
\* on, the loops being synchronous code.
LoopSpec == Init /\ [][LoopNext]_vars /\ WF_vars(LoopRun)

----------------------------------------------------------------------------
(* The extension: popup, background capture, list screen, viewer loading   *)

\* most clicks and reloads of the user in one behaviour
MaxEvents == 2

\* the URLs of the pages under comparison
Urls == {"u1", "u2"}

\* document.documentElement.outerHTML of a page that is captured
PageHtmls == {<<"b">>}

\* the html of the records that are in storage when the pages open
StoredHtmls == {<<>>, <<"a">>}

\* the scripts a viewer page may be running
Scripts(page) ==
  IF page = "compare_view.html" THEN {"compare_view", "compare_view2"}
  ELSE {"merged_view", "merged_page"}

\* !v of a string or of undefined
Falsy(v) == v = Undefined \/ v = <<>>

\* data.baselines[url]
Lookup(baselines, url) ==
  IF url \in DOMAIN baselines THEN baselines[url] ELSE NoRecord

\* mutant: the other records are not written back
PutBaseline_OnlyNew(baselines, url, html, capturedAt) ==
  [u \in {url} |-> [html |-> html, capturedAt |-> capturedAt]]

\* baselines[url] = { html: html, capturedAt: Date.now() }
PutBaseline(baselines, url, html, capturedAt) ==
  [u \in DOMAIN baselines \cup {url} |->
     IF u = url THEN [html |-> html, capturedAt |-> capturedAt] ELSE baselines[u]]

\* mutant: every record is removed
DeleteBaseline_All(baselines, urlToDelete) == EmptyMap

\* delete baselines[urlToDelete]
DeleteBaseline(baselines, urlToDelete) ==
  [u \in DOMAIN baselines \ {urlToDelete} |-> baselines[u]]

\* mutant: currentData is not part of the write
TransientPair_BaselineOnly(store, baselineData, currentData) ==
  [store EXCEPT !.baselineData = baselineData]

\* chrome.storage.local.set({ baselineData, currentData })
TransientPair(store, baselineData, currentData) ==
  [store EXCEPT !.baselineData = baselineData, !.currentData = currentData]

\* chrome.storage.local.remove(['baselineData', 'currentData'])
RemovePair(store) ==
  [store EXCEPT !.baselineData = NoRecord, !.currentData = NoRecord]

\* !baselineData || !currentData
PairMissing(baselineData, currentData) ==
  baselineData = NoRecord \/ currentData = NoRecord

\* mutant: the current html is not tested
HtmlMissing_BaselineOnly(baselineData, currentData) == Falsy(baselineData.html)

\* !baseline || !current, with baseline = baselineData.html || '' and alike
HtmlMissing(baselineData, currentData) ==
  Falsy(baselineData.html) \/ Falsy(currentData.html)

\* what a viewer shows instead of a comparison
NoDataMessage(script, baselineData, currentData) ==
  IF script \in {"compare_view", "compare_view2"}
  THEN IF PairMissing(baselineData, currentData)
       THEN "Comparison data not found. Please try again."
       ELSE IF Falsy(baselineData.html)
       THEN "No baseline HTML was found for this URL."
       ELSE "No current HTML captured in this session."
  ELSE IF script = "merged_view"
  THEN "Could not load comparison data. Please capture a new baseline and try again."
  ELSE IF PairMissing(baselineData, currentData)
       THEN "No Comparison Data"
       ELSE "Invalid Data"

\* the function of the diff engine a viewer script calls
EngineOf(script) ==
  CASE script \in {"compare_view", "compare_view2"} -> "renderSideBySide"
    [] script = "merged_view" -> "buildMergedHTML"
    [] script = "merged_page" -> "renderMergedPage"

\* a viewer tab: read is the pair its load handler got from storage, engine
\* the call of the diff engine it made
Tab(page, script) ==
  [page |-> page, script |-> script, state |-> "opened", message |-> "",
   read |-> <<>>, engine |-> <<>>, stored |-> <<>>]

\* the tab handleComparison opens: stored is the pair its request wrote
\* before opening it (kept to tell whose pair the viewer reads)
OpenedTab(page, script, baselineData, currentData) ==
  [Tab(page, script) EXCEPT !.stored = <<baselineData, currentData>>]

\* the storage callback of a viewer's DOMContentLoaded handler, after the
\* remove: the guards, then the call of the engine (the merged page of
\* part_001 calls it from a timer)
Loaded(tab, baselineData, currentData) ==
  IF PairMissing(baselineData, currentData)
  THEN [tab EXCEPT !.state = "nodata", !.read = <<baselineData, currentData>>,
                   !.message = NoDataMessage(tab.script, baselineData, currentData)]
  ELSE IF HtmlMissing(baselineData, currentData)
  THEN [tab EXCEPT !.state = "nodata", !.read = <<baselineData, currentData>>,
                   !.message = NoDataMessage(tab.script, baselineData, currentData)]
  ELSE IF tab.script = "merged_page"
  THEN [tab EXCEPT !.state = "scheduled", !.read = <<baselineData, currentData>>]
  ELSE [tab EXCEPT !.state = "engine", !.read = <<baselineData, currentData>>,
                   !.engine = <<EngineOf(tab.script), baselineData.html, currentData.html>>]

\* a handler run: kind is the handler, pc the await or callback it waits in,
\* the rest its locals
Proc(kind, url, page) ==
  [kind |-> kind, pc |-> "sent", url |-> url, page |-> page, html |-> Undefined,
   capturedAt |-> 0, baselines |-> EmptyMap, baselineData |-> NoRecord]

\* the sequence without its p-th element
RemoveAt(seq, p) == SubSeq(seq, 1, p - 1) \o SubSeq(seq, p + 1, Len(seq))

\* no handler run is in flight and no viewer is loading
Quiet ==
  /\ procs = <<>>
  /\ \A t \in 1..Len(tabs) : tabs[t].state \notin {"opened", "scheduled"}

\* the engine variables of a behaviour that is about the extension
EngineIdle ==
  /\ baselineHTML = <<>>
  /\ currentHTML = <<>>
  /\ call = "none"
  /\ toks = <<>>
  /\ diff = <<>>
  /\ view = "blank"
  /\ baselinePane = <<>>
  /\ currentPane = <<>>
  /\ allChanges = <<>>
  /\ filteredChanges = <<>>
  /\ currentIndex = -1
  /\ fullBaselineHTML = <<>>
  /\ fullCurrentHTML = <<>>
  /\ highlight = {}
  /\ searchValue = <<>>
  /\ loop = LoopIdle

engineVars == <<baselineHTML, currentHTML, call, toks, diff, viewerVars, loop>>

\* the records a key of the transient pair may hold when a viewer page is
\* opened by hand: none, or one with its html missing, empty or there
LeftOver(other) ==
  {NoRecord} \cup {[html |-> h] @@ other : h \in {Undefined} \cup StoredHtmls}

\* Storage outlives the pages. Either the popup and the list screen open on
\* any baselines map, or a viewer page is opened by hand on whatever the
\* transient keys hold.
ExtInit ==
  /\ EngineIdle
  /\ procs = <<>>
  /\ messageBox = ""
  /\ clock = 1
  /\ events = 0
  /\ \/ /\ \E known \in SUBSET Urls :
             \E htmls \in [known -> StoredHtmls] :
               storage = [EmptyStorage EXCEPT
                            !.baselines = [u \in known |->
                                             [html |-> htmls[u], capturedAt |-> 0]]]
        /\ tabs = <<>>
     \/ /\ \E baselineData \in LeftOver([capturedAt |-> 0]),
              currentData \in LeftOver([url |-> "u1"]) :
             storage = [EmptyStorage EXCEPT !.baselineData = baselineData,
                                            !.currentData = currentData]
        /\ \E page \in {"compare_view.html", "merged_view.html"} :
             \E script \in Scripts(page) : tabs = <<Tab(page, script)>>
  /\ listed = DOMAIN storage.baselines

\* captureBtn click: tabs.query, then the captureHTML message is sent
CaptureClick(url) ==
  /\ events < MaxEvents
  /\ events' = events + 1
  /\ procs' = Append(procs, Proc("capture", url, ""))
  /\ UNCHANGED <<engineVars, storage, tabs, listed, messageBox, clock>>

\* the response to the capture message: ok with the page's html, or an error
CaptureResponse(p) ==
  /\ procs[p].kind = "capture" /\ procs[p].pc = "sent"
  /\ \/ \E html \in PageHtmls :
          /\ procs' = [procs EXCEPT ![p].html = html, ![p].pc = "get"]
          /\ UNCHANGED messageBox
     \/ /\ procs' = RemoveAt(procs, p)
        /\ messageBox' = "Failed to capture baseline."
  /\ UNCHANGED <<engineVars, storage, tabs, listed, clock, events>>

\* the callback of storage.get("baselines"): the record is put into the
\* object that was read, and storage.set is called
CaptureGet(p) ==
  /\ procs[p].kind = "capture" /\ procs[p].pc = "get"
  /\ procs' = [procs EXCEPT
                 ![p].baselines = PutBaseline(storage.baselines, procs[p].url,
                                              procs[p].html, clock),
                 ![p].capturedAt = clock,
                 ![p].pc = "set"]
  /\ clock' = clock + 1
  /\ UNCHANGED <<engineVars, storage, tabs, listed, messageBox, events>>

\* storage.set({ baselines }) takes effect and its callback shows the message
CaptureSet(p) ==
  /\ procs[p].kind = "capture" /\ procs[p].pc = "set"
  /\ storage' = [storage EXCEPT !.baselines = procs[p].baselines]
  /\ messageBox' = "Baseline saved for this URL!"
  /\ procs' = RemoveAt(procs, p)
  /\ UNCHANGED <<engineVars, tabs, listed, clock, events>>

\* the list screen is loaded: renderBaselines
ListLoad ==
  /\ listed # DOMAIN storage.baselines
  /\ listed' = DOMAIN storage.baselines
  /\ UNCHANGED <<engineVars, storage, procs, tabs, messageBox, clock, events>>

\* a Delete button is clicked and the confirm dialog is answered
DeleteClick(urlToDelete, confirmed) ==
  /\ events < MaxEvents
  /\ urlToDelete \in listed
  /\ events' = events + 1
  /\ procs' = IF confirmed
              THEN Append(procs, [Proc("delete", urlToDelete, "") EXCEPT !.pc = "get"])
              ELSE procs
  /\ UNCHANGED <<engineVars, storage, tabs, listed, messageBox, clock>>

\* the callback of storage.get('baselines') in handleDelete
DeleteGet(p) ==
  /\ procs[p].kind = "delete" /\ procs[p].pc = "get"
  /\ procs' = [procs EXCEPT
                 ![p].baselines = DeleteBaseline(storage.baselines, procs[p].url),
                 ![p].pc = "set"]
  /\ UNCHANGED <<engineVars, storage, tabs, listed, messageBox, clock, events>>

\* storage.set({ baselines }) takes effect and its callback renders the list
DeleteSet(p) ==
  /\ procs[p].kind = "delete" /\ procs[p].pc = "set"
  /\ storage' = [storage EXCEPT !.baselines = procs[p].baselines]
  /\ listed' = DOMAIN procs[p].baselines
  /\ procs' = RemoveAt(procs, p)
  /\ UNCHANGED <<engineVars, tabs, messageBox, clock, events>>

\* compareBtn or viewChangesBtn click: handleComparison(viewPage) up to the
\* captureHTML message
CompareClick(url, viewPage) ==
  /\ events < MaxEvents
  /\ events' = events + 1
  /\ IF url = ""
     THEN /\ messageBox' = "Cannot get current tab info."
          /\ UNCHANGED procs
     ELSE /\ procs' = Append(procs, Proc("compare", url, viewPage))
          /\ UNCHANGED messageBox
  /\ UNCHANGED <<engineVars, storage, tabs, listed, clock>>

\* the response to the capture message in handleComparison
CompareResponse(p) ==
  /\ procs[p].kind = "compare" /\ procs[p].pc = "sent"
  /\ \/ \E html \in PageHtmls :
          /\ procs' = [procs EXCEPT ![p].html = html, ![p].pc = "get"]
          /\ UNCHANGED messageBox
     \/ /\ procs' = RemoveAt(procs, p)
        /\ messageBox' = "Failed to capture current HTML."
  /\ UNCHANGED <<engineVars, storage, tabs, listed, clock, events>>

\* await storage.get("baselines") resolves: the baseline of the tab's URL
CompareGet(p) ==
  /\ procs[p].kind = "compare" /\ procs[p].pc = "get"
  /\ LET baselineData == Lookup(storage.baselines, procs[p].url)
     IN IF baselineData = NoRecord
        THEN /\ procs' = RemoveAt(procs, p)
             /\ messageBox' = "No baseline found for this URL. Please capture one first."
        ELSE /\ procs' = [procs EXCEPT ![p].baselineData = baselineData, ![p].pc = "set"]
             /\ UNCHANGED messageBox
  /\ UNCHANGED <<engineVars, storage, tabs, listed, clock, events>>

\* await storage.set({ baselineData, currentData }) resolves
CompareSet(p) ==
  /\ procs[p].kind = "compare" /\ procs[p].pc = "set"
  /\ storage' = TransientPair(storage, procs[p].baselineData,
                              [html |-> procs[p].html, url |-> procs[p].url])
  /\ procs' = [procs EXCEPT ![p].pc = "create"]
  /\ UNCHANGED <<engineVars, tabs, listed, messageBox, clock, events>>

\* chrome.tabs.create({ url: chrome.runtime.getURL(viewPage) })
CompareCreate(p) ==
  /\ procs[p].kind = "compare" /\ procs[p].pc = "create"
  /\ \E script \in Scripts(procs[p].page) :
       tabs' = Append(tabs, OpenedTab(procs[p].page, script, procs[p].baselineData,
                                      [html |-> procs[p].html, url |-> procs[p].url]))
  /\ procs' = RemoveAt(procs, p)
  /\ UNCHANGED <<engineVars, storage, listed, messageBox, clock, events>>

\* the storage callback of a viewer's DOMContentLoaded handler
ViewerLoad(t) ==
  /\ tabs[t].state = "opened"
  /\ storage' = RemovePair(storage)
  /\ tabs' = [tabs EXCEPT ![t] = Loaded(@, storage.baselineData, storage.currentData)]
  /\ UNCHANGED <<engineVars, procs, listed, messageBox, clock, events>>

\* the timer of the merged page fires: renderMergedPage(baseline, current, url)
MergedPageTimer(t) ==
  /\ tabs[t].state = "scheduled"
  /\ tabs' = [tabs EXCEPT
                ![t].state = "engine",
                ![t].engine = <<EngineOf(tabs[t].script), tabs[t].read[1].html,
                                tabs[t].read[2].html>>]
  /\ UNCHANGED <<engineVars, storage, procs, listed, messageBox, clock, events>>

\* a viewer tab is reloaded
Reload(t) ==
  /\ events < MaxEvents
  /\ tabs[t].state \notin {"opened", "scheduled"}
  /\ events' = events + 1
  /\ tabs' = [tabs EXCEPT ![t] = Tab(tabs[t].page, tabs[t].script)]
  /\ UNCHANGED <<engineVars, storage, procs, listed, messageBox, clock>>

\* The user does one thing at a time: a click, a reload or a load of the
\* list screen comes when nothing is in flight (Quiet); the callbacks and
\* continuations of what is in flight run as they come.
ExtNext ==
  \/ \E url \in Urls : Quiet /\ CaptureClick(url)
  \/ \E p \in 1..Len(procs) : CaptureResponse(p)
  \/ \E p \in 1..Len(procs) : CaptureGet(p)
  \/ \E p \in 1..Len(procs) : CaptureSet(p)
  \/ Quiet /\ ListLoad
  \/ \E url \in Urls, confirmed \in BOOLEAN : Quiet /\ DeleteClick(url, confirmed)
  \/ \E p \in 1..Len(procs) : DeleteGet(p)
  \/ \E p \in 1..Len(procs) : DeleteSet(p)
  \/ \E url \in Urls \cup {""}, viewPage \in {"compare_view.html", "merged_view.html"} :
       Quiet /\ CompareClick(url, viewPage)
  \/ \E p \in 1..Len(procs) : CompareResponse(p)
  \/ \E p \in 1..Len(procs) : CompareGet(p)
  \/ \E p \in 1..Len(procs) : CompareSet(p)
  \/ \E p \in 1..Len(procs) : CompareCreate(p)
  \/ \E t \in 1..Len(tabs) : ViewerLoad(t)
  \/ \E t \in 1..Len(tabs) : MergedPageTimer(t)
  \/ \E t \in 1..Len(tabs) : Quiet /\ Reload(t)

ExtSpec == ExtInit /\ [][ExtNext]_vars

\* The popup, the list screen and the viewer tabs are pages of their own:
\* clicks come while other handlers are in flight, and the callbacks of all
\* of them interleave.
ConcNext ==
  \/ \E url \in Urls : CaptureClick(url)
  \/ \E p \in 1..Len(procs) : CaptureResponse(p)
  \/ \E p \in 1..Len(procs) : CaptureGet(p)
  \/ \E p \in 1..Len(procs) : CaptureSet(p)
  \/ ListLoad
  \/ \E url \in Urls, confirmed \in BOOLEAN : DeleteClick(url, confirmed)
  \/ \E p \in 1..Len(procs) : DeleteGet(p)
  \/ \E p \in 1..Len(procs) : DeleteSet(p)
  \/ \E url \in Urls \cup {""}, viewPage \in {"compare_view.html", "merged_view.html"} :
       CompareClick(url, viewPage)
  \/ \E p \in 1..Len(procs) : CompareResponse(p)
  \/ \E p \in 1..Len(procs) : CompareGet(p)
  \/ \E p \in 1..Len(procs) : CompareSet(p)
  \/ \E p \in 1..Len(procs) : CompareCreate(p)
  \/ \E t \in 1..Len(tabs) : ViewerLoad(t)
  \/ \E t \in 1..Len(tabs) : MergedPageTimer(t)
  \/ \E t \in 1..Len(tabs) : Reload(t)

ConcSpec == ExtInit /\ [][ConcNext]_vars

----------------------------------------------------------------------------
(* Properties                                                              *)

\* the payloads of the operations whose type is in kinds, concatenated in order
Payloads(ops, kinds) ==
  Join([k \in 1..Len(SelectSeq(ops, LAMBDA op : op[1] \in kinds)) |->
          SelectSeq(ops, LAMBDA op : op[1] \in kinds)[k][2]])

\* the payloads of the equal operations, as a token sequence
EqualTokens(ops) ==
  LET eqs == SelectSeq(ops, LAMBDA op : op[1] = "equal")
  IN [k \in 1..Len(eqs) |-> eqs[k][2]]

\* s is a subsequence of t
RECURSIVE IsSubseq(_, _)
IsSubseq(s, t) ==
  IF s = <<>> THEN TRUE
  ELSE IF t = <<>> THEN FALSE
  ELSE IF Head(s) = Head(t) THEN IsSubseq(Tail(s), Tail(t))
  ELSE IsSubseq(s, Tail(t))

\* the elements of A at the positions in keep, in order
RECURSIVE Restrict(_, _, _)
Restrict(A, keep, k) ==
  IF k > Len(A) THEN <<>>
  ELSE (IF k \in keep THEN <<A[k]>> ELSE <<>>) \o Restrict(A, keep, k + 1)

\* the length of a longest common subsequence, by enumeration
LcsLength(A, B) ==
  LET common == {keep \in SUBSET (1..Len(A)) : IsSubseq(Restrict(A, keep, 1), B)}
  IN CHOOSE len \in 0..Len(A) :
       /\ \E keep \in common : Cardinality(keep) = len
       /\ \A keep \in common : Cardinality(keep) <= len

\* C1: for every input string s, the token contents returned by tokenize
\* (either copy) and by tokenizeHTML, concatenated in order, equal s exactly.
C1_Reconstruction ==
  /\ call \in {"tokenize", "tokenizeMerged"} => Join(toks) = baselineHTML
  /\ call = "tokenizeHTML" => Join(Contents(toks)) = baselineHTML

\* C2: the payloads of the equal and delete operations of diffTokens
\* (coalescing and prefer-insert), concatenated in output order, equal the
\* concatenation of the baseline tokens, and those of the equal and insert
\* operations equal the concatenation of the current tokens.
C2_TotalCoverage ==
  /\ call \in {"diffTokens", "compare_view", "compare_view2"} /\ view # "nodata" =>
       /\ Payloads(diff, {"equal", "delete"}) = Join(tokenize(baselineHTML))
       /\ Payloads(diff, {"equal", "insert"}) = Join(tokenize(currentHTML))
  /\ call = "diffTokensMerged" =>
       /\ Payloads(diff, {"equal", "delete"}) = Join(tokenizeMerged(baselineHTML))
       /\ Payloads(diff, {"equal", "insert"}) = Join(tokenizeMerged(currentHTML))

\* a coalescing diff that holds an equal, a delete and an insert operation
C2_Witness ==
  /\ call = "diffTokens"
  /\ {"equal", "delete", "insert"} \subseteq {diff[k][1] : k \in 1..Len(diff)}
  /\ Len(tokenize(baselineHTML)) >= 3

\* C3: in the coalescing diffTokens the equal operations form a common
\* subsequence of the baseline and the current tokens whose length is the
\* length of their longest common subsequence, which is dp[0][0].
C3_EqualsAreLcs ==
  call = "diffTokens" =>
    LET A  == tokenize(baselineHTML)
        B  == tokenize(currentHTML)
        dp == LcsTable(A, B)
    IN /\ IsSubseq(EqualTokens(diff), A)
       /\ IsSubseq(EqualTokens(diff), B)
       /\ Len(EqualTokens(diff)) = dp[0, 0]
       /\ dp[0, 0] = LcsLength(A, B)

\* a coalescing diff whose look-ahead took both directions before an equal
C3_Witness ==
  /\ call = "diffTokens"
  /\ \E k \in 1..Len(diff) - 2 :
       diff[k][1] = "delete" /\ diff[k + 1][1] = "insert" /\ diff[k + 2][1] = "equal"
  /\ Len(tokenize(baselineHTML)) >= 3
  /\ Len(tokenize(currentHTML)) >= 3

\* the length of the longest common prefix of A and B
RECURSIVE CommonPrefixLen(_, _)
CommonPrefixLen(A, B) ==
  IF A # <<>> /\ B # <<>> /\ Head(A) = Head(B)
  THEN 1 + CommonPrefixLen(Tail(A), Tail(B))
  ELSE 0

Reverse(A) == [k \in 1..Len(A) |-> A[Len(A) + 1 - k]]

\* the split of A and B into common prefix, differing middles, common suffix
Split(A, B) ==
  LET p == CommonPrefixLen(A, B)
      s == CommonPrefixLen(Reverse(SubSeq(A, p + 1, Len(A))),
                           Reverse(SubSeq(B, p + 1, Len(B))))
  IN [prefix  |-> SubSeq(A, 1, p),
      removed |-> SubSeq(A, p + 1, Len(A) - s),
      added   |-> SubSeq(B, p + 1, Len(B) - s),
      suffix  |-> SubSeq(A, Len(A) - s + 1, Len(A))]

\* B is A with one run of tokens replaced by a run of tokens foreign to A,
\* the replaced tokens being foreign to B
IsReplacedRun(A, B) ==
  LET sp == Split(A, B)
  IN /\ sp.removed # <<>>
     /\ sp.added # <<>>
     /\ \A k \in 1..Len(sp.removed) : \A l \in 1..Len(B) : sp.removed[k] # B[l]
     /\ \A k \in 1..Len(sp.added) : \A l \in 1..Len(A) : sp.added[k] # A[l]

EqualOps(tokens) == [k \in 1..Len(tokens) |-> <<"equal", tokens[k]>>]

\* C4: when one run of baseline tokens is replaced by a different run of
\* current tokens, whether or not a common token follows, the coalescing
\* diffTokens emits the removed run as one delete immediately followed by the
\* added run as one insert, and renderSideBySide records exactly one change,
\* of type 'change', pairing them.
C4_ReplacedRunIsOneChange ==
  /\ call \in {"diffTokens", "compare_view", "compare_view2"}
  /\ view # "nodata"
  /\ IsReplacedRun(tokenize(baselineHTML), tokenize(currentHTML))
  => LET sp == Split(tokenize(baselineHTML), tokenize(currentHTML))
     IN /\ diff = EqualOps(sp.prefix)
                  \o << <<"delete", Join(sp.removed)>>, <<"insert", Join(sp.added)>> >>
                  \o EqualOps(sp.suffix)
        /\ call # "diffTokens" =>
             /\ view = "rendered"
             /\ allChanges = << Change("change", ChangeId(0, "del"), ChangeId(0, "add")) >>

\* C5: aligning a token sequence with itself (diffTokens of either kind and
\* diffHTMLTokens) yields exactly one equal operation per token, in the
\* original order, and no other operation.
C5_IdentityDiff ==
  baselineHTML = currentHTML =>
    /\ call = "diffTokens" => diff = EqualOps(tokenize(baselineHTML))
    /\ call = "diffTokensMerged" => diff = EqualOps(tokenizeMerged(baselineHTML))
    /\ call = "diffHTMLTokens" => diff = EqualOps(Contents(tokenizeHTML(baselineHTML)))

\* an attribute-aware diff of a string of three tokens with itself
C5_Witness ==
  /\ call = "diffHTMLTokens"
  /\ baselineHTML = currentHTML
  /\ Len(diff) = 3

ClaimedEntryTypes(ops) ==
  LET kind(k) ==
        IF ops[k][1] = "delete"
        THEN (IF k < Len(ops) /\ ops[k + 1][1] = "insert" THEN "change" ELSE "delete")
        ELSE IF ops[k][1] = "insert"
        THEN (IF k > 1 /\ ops[k - 1][1] = "delete" THEN "paired" ELSE "insert")
        ELSE "equal"
  IN SelectSeq([k \in 1..Len(ops) |-> kind(k)],
               LAMBDA t : t \in {"change", "delete", "insert"})

\* C7: renderSideBySide puts every non-equal operation of the diff into
\* exactly one entry of the change list: a delete immediately followed by an
\* insert is one 'change' entry, every other delete or insert its own entry,
\* so the entries number the non-equal operations less the paired inserts.
C7_ChangeCountConservation ==
  call \in {"compare_view", "compare_view2"} /\ view # "nodata" =>
    /\ [k \in 1..Len(allChanges) |-> allChanges[k].type] = ClaimedEntryTypes(diff)
    /\ Len(allChanges) =
         Cardinality({k \in 1..Len(diff) : diff[k][1] # "equal"})
         - Cardinality({k \in 1..Len(diff) - 1 :
                          diff[k][1] = "delete" /\ diff[k + 1][1] = "insert"})

\* the text with the entities &amp; &lt; &gt; read back
RECURSIVE Unescape(_)
Unescape(s) ==
  IF s = <<>> THEN <<>>
  ELSE IF startsWith(s, <<"&", "a", "m", "p", ";">>)
       THEN <<"&">> \o Unescape(SubSeq(s, 6, Len(s)))
  ELSE IF startsWith(s, <<"&", "l", "t", ";">>)
       THEN <<"<">> \o Unescape(SubSeq(s, 5, Len(s)))
  ELSE IF startsWith(s, <<"&", "g", "t", ";">>)
       THEN <<">">> \o Unescape(SubSeq(s, 5, Len(s)))
  ELSE <<Head(s)>> \o Unescape(Tail(s))

\* no raw '<' or '>', and every '&' opens an entity
EntitySafe(s) ==
  \A k \in 1..Len(s) :
    /\ s[k] \notin {"<", ">"}
    /\ s[k] = "&" =>
         \E entity \in {<<"&", "a", "m", "p", ";">>, <<"&", "l", "t", ";">>,
                        <<"&", "g", "t", ";">>, Nbsp} :
           startsWith(SubSeq(s, k, Len(s)), entity)

\* the payload text a pane shows: its segments but the placeholders, read back
PaneText(pane) ==
  LET shown == SelectSeq(pane, LAMBDA seg : seg.class # "diff-placeholder")
  IN Join([k \in 1..Len(shown) |-> Unescape(shown[k].text)])

\* C8: the panes built by a side-by-side viewer hold the operation payloads
\* in escaped form only: outside the markers the renderer adds there is no raw
\* '<' or '>' and every '&' opens an entity, and reading the entities back
\* gives the payloads of the baseline side and of the current side.
C8_EscapedPanes ==
  call \in {"compare_view", "compare_view2"} /\ view \in {"rendered", "fallback"} =>
    /\ \A k \in 1..Len(baselinePane) : EntitySafe(baselinePane[k].text)
    /\ \A k \in 1..Len(currentPane) : EntitySafe(currentPane[k].text)
    /\ view = "rendered" =>
         /\ PaneText(baselinePane) = Payloads(diff, {"equal", "delete"})
         /\ PaneText(currentPane) = Payloads(diff, {"equal", "insert"})
    /\ view = "fallback" =>
         /\ PaneText(baselinePane) = baselineHTML
         /\ PaneText(currentPane) = currentHTML

\* the first viewer rendered a deleted '&' and an inserted tag
C8_Witness ==
  /\ call = "compare_view"
  /\ view = "rendered"
  /\ \E k \in 1..Len(baselinePane) :
       /\ baselinePane[k].class = "diff-deleted"
       /\ baselinePane[k].text = <<"&", "a", "m", "p", ";">>
  /\ \E k \in 1..Len(currentPane) :
       /\ currentPane[k].class = "diff-added"
       /\ startsWith(currentPane[k].text, <<"&", "l", "t", ";">>)

\* the operation at index k of the diff is an insert no delete precedes
IsLoneInsert(ops, k) ==
  ops[k][1] = "insert" /\ ~(k > 1 /\ ops[k - 1][1] = "delete")

\* C9: renderSideBySide handles an insert that no preceding delete consumed
\* without raising an error: the escaped payload is on the current pane in a
\* span change-k-add, a placeholder span change-k-del is on the baseline pane,
\* and an entry of type 'insert' with the two ids is in the change list.
C9_LoneInsertRendered ==
  call \in {"compare_view", "compare_view2"} /\ view # "nodata" =>
    \A k \in 1..Len(diff) :
      IsLoneInsert(diff, k) =>
        /\ view = "rendered"
        /\ \E c \in 0..Len(allChanges) - 1 :
             /\ allChanges[c + 1] =
                  Change("insert", ChangeId(c, "del"), ChangeId(c, "add"))
             /\ \E l \in 1..Len(currentPane) :
                  currentPane[l] = Span("diff-added", ChangeId(c, "add"), esc(diff[k][2]))
             /\ \E l \in 1..Len(baselinePane) :
                  baselinePane[l] = Span("diff-placeholder", ChangeId(c, "del"), Nbsp)

\* C10: when renderSideBySide throws, the load handler leaves both panes with
\* the escaped original strings and nothing of the failed rendering: no
\* change marker in the panes and no entry in allChanges or filteredChanges.
C10_FallbackLeavesNothing ==
  view = "fallback" =>
    /\ baselinePane = <<Text(esc(baselineHTML))>>
    /\ currentPane = <<Text(esc(currentHTML))>>
    /\ allChanges = <<>>
    /\ filteredChanges = <<>>

\* the number of operations before the k-th whose type is in kinds: with the
\* kinds that consume a baseline token it is the baseline index i at which the
\* k-th operation was emitted, with those that consume a current token it is j
CountBefore(ops, k, kinds) == Cardinality({l \in 1..k - 1 : ops[l][1] \in kinds})
BaseIndex(ops, k) == CountBefore(ops, k, {"equal", "modify", "delete"})
CurIndex(ops, k) == CountBefore(ops, k, {"equal", "modify", "add", "insert"})

\* a tag that is not a closing tag
IsOpeningTag(content) ==
  startsWith(content, <<"<">>) /\ ~startsWith(content, <<"<", "/">>)

\* C11: whenever the backtrack of diffHTMLTokens is at (i, j) with both
\* tokens opening tags of the same tag name and of different content, the
\* operation it emits there is one modify carrying the current tag, both
\* indices advance, and neither token is in a delete or an add; for
\* <img src="1.png"> against <img src="2.png"> the output is one modify.
C11_ModifyForSameTag ==
  call = "diffHTMLTokens" =>
    LET base == Contents(tokenizeHTML(baselineHTML))
        cur  == Contents(tokenizeHTML(currentHTML))
    IN /\ \A k \in 1..Len(diff) :
            LET i == BaseIndex(diff, k)
                j == CurIndex(diff, k)
            IN i < Len(base) /\ j < Len(cur)
               /\ IsOpeningTag(base[i + 1]) /\ IsOpeningTag(cur[j + 1])
               /\ getTagName(base[i + 1]) = getTagName(cur[j + 1])
               /\ base[i + 1] # cur[j + 1]
               => /\ diff[k] = <<"modify", cur[j + 1]>>
                  /\ k < Len(diff) => /\ BaseIndex(diff, k + 1) = i + 1
                                      /\ CurIndex(diff, k + 1) = j + 1
       /\ BaseIndex(diff, Len(diff) + 1) = Len(base)
       /\ CurIndex(diff, Len(diff) + 1) = Len(cur)
       /\ baselineHTML = ImgBaseline /\ currentHTML = ImgCurrent =>
            diff = << <<"modify", ImgCurrent>> >>

\* an attribute-aware diff that emitted a modify after an equal operation
C11_Witness ==
  /\ call = "diffHTMLTokens"
  /\ \E k \in 2..Len(diff) : diff[k][1] = "modify" /\ diff[k - 1][1] = "equal"

\* the payloads of the operations whose type is in kinds, as a token sequence
PayloadSeq(ops, kinds) ==
  LET chosen == SelectSeq(ops, LAMBDA op : op[1] \in kinds)
  IN [k \in 1..Len(chosen) |-> chosen[k][2]]

\* C12 as claimed: in the output of diffHTMLTokens, with or without modify
\* operations, the payloads of the equal and add operations in order are the
\* current token sequence and those of the equal and delete operations are
\* the baseline token sequence.
C12_TotalCoverageHTML ==
  call = "diffHTMLTokens" =>
    /\ PayloadSeq(diff, {"equal", "add"}) = Contents(tokenizeHTML(currentHTML))
    /\ PayloadSeq(diff, {"equal", "delete"}) = Contents(tokenizeHTML(baselineHTML))

\* C12 as amended: the payloads of the equal, add and modify operations in
\* order are the current token sequence; those of the equal and delete
\* operations are the baseline token sequence less the baseline tags that a
\* modify consumed, which no operation carries; an output without a modify
\* satisfies the claim as it stands.
C12_CoverageWithModify ==
  call = "diffHTMLTokens" =>
    LET base     == Contents(tokenizeHTML(baselineHTML))
        cur      == Contents(tokenizeHTML(currentHTML))
        modified == {BaseIndex(diff, k) + 1 : k \in {l \in 1..Len(diff) : diff[l][1] = "modify"}}
    IN /\ PayloadSeq(diff, {"equal", "add", "modify"}) = cur
       /\ PayloadSeq(diff, {"equal", "delete"}) =
            Restrict(base, (1..Len(base)) \ modified, 1)
       /\ modified = {} => /\ PayloadSeq(diff, {"equal", "add"}) = cur
                           /\ PayloadSeq(diff, {"equal", "delete"}) = base

\* an attribute-aware diff that holds a modify, an add and a delete
C12_Witness ==
  /\ call = "diffHTMLTokens"
  /\ {"modify", "add", "delete"} \subseteq {diff[k][1] : k \in 1..Len(diff)}

\* the number of span segments of a pane
SpanCount(pane) == Cardinality({l \in 1..Len(pane) : pane[l].tag = "span"})

\* the number of segments of a pane that carry the identifier id
IdCount(pane, id) == Cardinality({l \in 1..Len(pane) : pane[l].id = id})

\* C13: after renderSideBySide the change list is in the order of the
\* operations it came from, its k-th entry (from 0) has the identifiers
\* change-k-del and change-k-add, all identifiers are pairwise distinct, each
\* delId is on exactly one span of the baseline pane and each addId on exactly
\* one span of the current pane, and each pane has exactly as many spans as
\* the list has entries.
C13_IdsMarkSpans ==
  call \in {"compare_view", "compare_view2"} /\ view # "nodata" =>
    LET N == Len(allChanges)
    IN /\ [k \in 1..N |-> allChanges[k].type] = ClaimedEntryTypes(diff)
       /\ \A k \in 0..N - 1 :
            /\ allChanges[k + 1].delId = ChangeId(k, "del")
            /\ allChanges[k + 1].addId = ChangeId(k, "add")
            /\ IdCount(baselinePane, allChanges[k + 1].delId) = 1
            /\ IdCount(currentPane, allChanges[k + 1].addId) = 1
       /\ Cardinality({allChanges[k].delId : k \in 1..N}
                      \cup {allChanges[k].addId : k \in 1..N}) = 2 * N
       /\ SpanCount(baselinePane) = N
       /\ SpanCount(currentPane) = N

\* what C14 says of an operation list for baseline tokens A and current
\* tokens B when B is A with tokens inserted
PureInsertionAligned(A, B, ops) ==
  /\ \A k \in 1..Len(ops) : ops[k][1] \in {"equal", "insert"}
  /\ EqualTokens(ops) = A
  /\ \A k \in 1..CommonPrefixLen(A, B) : ops[k] = <<"equal", A[k]>>
  /\ Payloads(ops, {"equal", "insert"}) = Join(B)
  /\ Len(Payloads(ops, {"insert"})) = Len(Join(B)) - Len(Join(A))

\* C14: when the current tokens are the baseline tokens with tokens inserted,
\* the alignment (coalescing and prefer-insert) has no delete, every baseline
\* token is emitted as equal, the common prefix is emitted as equal before
\* any other operation, and the inserted tokens are in insert operations
\* only; for <div id="a">Hello</div> against <div id="a">Hello World</div>
\* the inserted " " and "World" are the only change.
C14_PureInsertion ==
  /\ call = "diffTokens" /\ IsSubseq(tokenize(baselineHTML), tokenize(currentHTML)) =>
       PureInsertionAligned(tokenize(baselineHTML), tokenize(currentHTML), diff)
  /\ call = "diffTokensMerged"
     /\ IsSubseq(tokenizeMerged(baselineHTML), tokenizeMerged(currentHTML)) =>
       PureInsertionAligned(tokenizeMerged(baselineHTML), tokenizeMerged(currentHTML), diff)
  /\ baselineHTML = DivBaseline /\ currentHTML = DivCurrent =>
       /\ call = "diffTokens" =>
            diff = << <<"equal", SubSeq(DivBaseline, 1, 12)>>,
                      <<"equal", <<"H", "e", "l", "l", "o">>>>,
                      <<"insert", <<" ", "W", "o", "r", "l", "d">>>>,
                      <<"equal", <<"<", "/", "d", "i", "v", ">">>>> >>
       /\ call = "diffTokensMerged" =>
            diff = << <<"equal", SubSeq(DivBaseline, 1, 12)>>,
                      <<"equal", <<"H", "e", "l", "l", "o">>>>,
                      <<"insert", <<" ">>>>,
                      <<"insert", <<"W", "o", "r", "l", "d">>>>,
                      <<"equal", <<"<", "/", "d", "i", "v", ">">>>> >>

\* a prefer-insert diff of a pure insertion between two common tokens
C14_Witness ==
  /\ call = "diffTokensMerged"
  /\ IsSubseq(tokenizeMerged(baselineHTML), tokenizeMerged(currentHTML))
  /\ \E k \in 2..Len(diff) - 1 :
       diff[k - 1][1] = "equal" /\ diff[k][1] = "insert" /\ diff[k + 1][1] = "equal"

\* what measures the advance of a call: iEnd + jEnd inside the look-ahead
\* loop, i + j elsewhere
Progress(l) == IF l.pc = "lookahead" THEN l.iEnd + l.jEnd ELSE l.i + l.j

\* the indices of a call are within the dp table, its iterations number at
\* most n + m, and what it returns is the diff of the whole call
LoopInBounds ==
  /\ loop.steps <= Len(LoopA) + Len(LoopB)
  /\ loop.i \in 0..Len(LoopA) /\ loop.iEnd \in 0..Len(LoopA)
  /\ loop.j \in 0..Len(LoopB) /\ loop.jEnd \in 0..Len(LoopB)
  /\ loop.pc = "done" /\ loop.fn = "diffTokens" =>
       diff = diffTokens(baselineHTML, currentHTML)
  /\ loop.pc = "done" /\ loop.fn = "diffTokensMerged" =>
       diff = diffTokensMerged(baselineHTML, currentHTML)

\* an iteration moves an index forward and none backward, and the block of
\* an outer iteration ends further on than it began
LoopAdvances ==
  /\ loop'.steps # loop.steps =>
       /\ loop'.steps = loop.steps + 1
       /\ Progress(loop') > Progress(loop)
       /\ loop'.i >= loop.i /\ loop'.j >= loop.j
       /\ loop'.iEnd >= loop.iEnd /\ loop'.jEnd >= loop.jEnd
  /\ loop.pc = "lookahead" /\ loop'.pc = "outer" =>
       loop'.i + loop'.j > loop.i + loop.j

\* C15: for every pair of strings, those with an unterminated '<' included,
\* tokenization and either backtrack end without an error: every iteration
\* of the outer loop and of the look-ahead loop advances the baseline index
\* or the current index, no index leaves the dp table, there are at most
\* n + m iterations, and a call that has begun returns its diff.
C15_Terminates ==
  /\ []LoopInBounds
  /\ [][LoopAdvances]_vars
  /\ loop.pc # "idle" ~> loop.pc = "done"

\* a coalescing diffTokens call has returned after three iterations or more
\* on a baseline that ends in an unterminated '<'
C15_Witness ==
  /\ loop.pc = "done"
  /\ loop.fn = "diffTokens"
  /\ loop.steps >= 3
  /\ baselineHTML # <<>>
  /\ baselineHTML[Len(baselineHTML)] = "<"

\* the html of a record of the transient pair is missing or the empty string
NoHtml(record) == record.html = Undefined \/ record.html = <<>>

\* C16: a viewer whose load handler found the transient pair missing, or the
\* baseline html or the current html empty or absent, shows a no-data message
\* and has not called renderSideBySide, buildMergedHTML or renderMergedPage;
\* a viewer that has called one had both records with a non-empty html, and
\* called it with these.
C16_NoDataBeforeEngine ==
  \A t \in 1..Len(tabs) :
    tabs[t].read # <<>> =>
      LET baselineData == tabs[t].read[1]
          currentData  == tabs[t].read[2]
          incomplete   == \/ baselineData = NoRecord
                          \/ currentData = NoRecord
                          \/ NoHtml(baselineData)
                          \/ NoHtml(currentData)
      IN /\ incomplete => /\ tabs[t].state = "nodata"
                          /\ tabs[t].message # ""
                          /\ tabs[t].engine = <<>>
         /\ tabs[t].engine # <<>> =>
              /\ ~incomplete
              /\ tabs[t].engine[2] = baselineData.html
              /\ tabs[t].engine[3] = currentData.html
         /\ ~incomplete => tabs[t].state \in {"scheduled", "engine"}

\* a viewer found a baseline record but an empty current html and shows the
\* no-data message
C16_Witness ==
  \E t \in 1..Len(tabs) :
    /\ tabs[t].state = "nodata"
    /\ tabs[t].read[1] # NoRecord
    /\ ~NoHtml(tabs[t].read[1])
    /\ tabs[t].read[2] # NoRecord
    /\ tabs[t].read[2].html = <<>>

\* the handler run p ends in this step
Ends(p) == Len(procs') < Len(procs)

\* what a step of a capture does to the stored baselines map
CaptureFrame ==
  \A p \in 1..Len(procs) :
    procs[p].kind = "capture" =>
      LET url    == procs[p].url
          before == storage.baselines
          after  == storage'.baselines
      IN /\ procs[p].pc = "set" /\ Ends(p) =>
              /\ DOMAIN after = DOMAIN before \cup {url}
              /\ after[url] = [html |-> procs[p].html, capturedAt |-> procs[p].capturedAt]
              /\ procs[p].html \in PageHtmls
              /\ procs[p].capturedAt = clock - 1
              /\ \A other \in DOMAIN before \ {url} : after[other] = before[other]
              /\ storage'.baselineData = storage.baselineData
              /\ storage'.currentData = storage.currentData
         /\ procs[p].pc # "set" => storage' = storage

\* C17: a successful baseline capture for a URL leaves the stored baselines
\* map with one record for it, holding the html just captured and the time
\* of the capture in place of any earlier record, and every other URL's
\* record as it was; a capture that fails leaves the map as it was.
C17_CaptureFrame == [][CaptureFrame]_vars

\* a capture has been saved next to the record of another URL, which is as
\* it was stored before
C17_Witness ==
  /\ messageBox = "Baseline saved for this URL!"
  /\ \E url \in DOMAIN storage.baselines, other \in DOMAIN storage.baselines :
       /\ url # other
       /\ storage.baselines[url].html \in PageHtmls
       /\ storage.baselines[url].capturedAt >= 1
       /\ storage.baselines[other] = [html |-> <<"a">>, capturedAt |-> 0]

\* C18: a confirmed delete removes exactly the chosen URL's record from the
\* baselines map and leaves every other record and the transient pair as they
\* were; a declined confirmation starts no handler and reads and writes
\* nothing; the map changes only where a capture or a delete writes it
DeleteFrame ==
  /\ \A p \in 1..Len(procs) :
       procs[p].kind = "delete" =>
         LET url == procs[p].url  before == storage.baselines  after == storage'.baselines
         IN /\ procs[p].pc = "set" /\ Ends(p) =>
                 /\ DOMAIN after = DOMAIN before \ {url}
                 /\ \A other \in DOMAIN after : after[other] = before[other]
                 /\ storage'.baselineData = storage.baselineData
                 /\ storage'.currentData = storage.currentData
                 /\ listed' = DOMAIN after
            /\ procs[p].pc # "set" => storage' = storage
  /\ events' # events /\ procs' = procs /\ tabs' = tabs =>
       storage' = storage /\ listed' = listed
  /\ storage'.baselines # storage.baselines =>
       \E p \in 1..Len(procs) :
         procs[p].kind \in {"capture", "delete"} /\ procs[p].pc = "set" /\ Ends(p)

C18_DeleteFrame == [][DeleteFrame]_vars

\* a record captured earlier has been deleted again while another URL's
\* record, stored before, is still there
C18_Witness ==
  /\ procs = <<>>
  /\ clock > 1
  /\ DOMAIN storage.baselines # {}
  /\ \A u \in DOMAIN storage.baselines : storage.baselines[u].capturedAt = 0

\* the error messages handleComparison reports
ComparisonErrors ==
  {"Cannot get current tab info.", "Failed to capture current HTML.",
   "No baseline found for this URL. Please capture one first."}

\* C19: a viewer tab is opened only by the step of a comparison request that
\* follows its storage write, and a request gets to that step only through
\* the write of both its baselineData and its currentData; a request that
\* fails to capture the current HTML or finds no baseline ends with storage
\* and tabs as they were and an error message shown
ComparisonFrame ==
  /\ Len(tabs') > Len(tabs) =>
       \E p \in 1..Len(procs) :
         /\ procs[p].kind = "compare" /\ procs[p].pc = "create" /\ Ends(p)
         /\ \E script \in Scripts(procs[p].page) :
              tabs' = Append(tabs, OpenedTab(procs[p].page, script, procs[p].baselineData,
                                             [html |-> procs[p].html,
                                              url |-> procs[p].url]))
  /\ \A p \in 1..Len(procs) :
       procs[p].kind = "compare" =>
         /\ ~Ends(p) /\ procs'[p].pc = "create" /\ procs[p].pc # "create" =>
              /\ procs[p].pc = "set"
              /\ storage'.baselineData = Lookup(storage.baselines, procs[p].url)
              /\ storage'.baselineData # NoRecord
              /\ storage'.currentData = [html |-> procs[p].html, url |-> procs[p].url]
              /\ storage'.baselines = storage.baselines
              /\ tabs' = tabs
         /\ procs[p].pc \in {"sent", "get"} /\ procs' # procs =>
              /\ storage' = storage
              /\ tabs' = tabs
              /\ Ends(p) => messageBox' \in ComparisonErrors
         /\ procs[p].pc = "get" /\ procs' # procs =>
              (Ends(p) <=> Lookup(storage.baselines, procs[p].url) = NoRecord)

C19_TabAfterPairWritten == [][ComparisonFrame]_vars

\* a comparison request has written its pair (the freshly captured page is
\* the stored currentData) and then opened its viewer tab
C19_Witness ==
  /\ procs = <<>>
  /\ storage.currentData # NoRecord
  /\ storage.currentData.html \in PageHtmls
  /\ Len(tabs) >= 1
  /\ tabs[Len(tabs)].state = "opened"

\* what an iteration of a loop pushed onto diff
Pushed == SubSeq(loop'.diff, Len(loop.diff) + 1, Len(loop'.diff))

\* C20: an iteration of the merged view's backtrack at (i, j) with both
\* indices in range and unequal tokens pushes an insert of B[j] and advances
\* j exactly when dp[i][j+1] >= dp[i+1][j], otherwise a delete of A[i] and
\* advances i; with the baseline exhausted it pushes an insert, with the
\* current exhausted a delete
PreferInsertRule ==
  loop.pc = "merged" /\ loop' # loop /\ loop'.pc = "merged" =>
    LET i == loop.i
        j == loop.j
        n == Len(LoopA)
        m == Len(LoopB)
        inserted == /\ Pushed = << <<"insert", LoopB[j + 1]>> >>
                    /\ loop'.i = i /\ loop'.j = j + 1
        deleted  == /\ Pushed = << <<"delete", LoopA[i + 1]>> >>
                    /\ loop'.i = i + 1 /\ loop'.j = j
    IN /\ i < n /\ j < m /\ LoopA[i + 1] # LoopB[j + 1] =>
            IF loop.dp[i, j + 1] >= loop.dp[i + 1, j] THEN inserted ELSE deleted
       /\ i = n => j < m /\ inserted
       /\ j = m => i < n /\ deleted

C20_PreferInsert == [][PreferInsertRule]_vars

\* the merged view's backtrack has pushed an insert with the baseline still
\* in range (a tie or a longer match on the insert side) and a delete with
\* the current still in range
C20_Witness ==
  /\ loop.fn = "diffTokensMerged"
  /\ \E k \in 1..(Len(loop.diff) - 1) :
       loop.diff[k][1] = "insert" /\ loop.diff[k + 1][1] \in {"delete", "equal"}
  /\ \E k \in 1..(Len(loop.diff) - 1) :
       loop.diff[k][1] = "delete" /\ loop.diff[k + 1][1] \in {"insert", "equal"}

\* the operations of type kind among ops[from..to]
CountIn(ops, kind, from, to) ==
  Cardinality({k \in from..to : ops[k][1] = kind})

\* ops[from..to] is a differing block: a run without an equal operation that
\* an equal operation or a sequence end bounds on either side
IsBlock(ops, from, to) ==
  /\ from <= to
  /\ \A k \in from..to : ops[k][1] # "equal"
  /\ from = 1 \/ ops[from - 1][1] = "equal"
  /\ to = Len(ops) \/ ops[to + 1][1] = "equal"

\* every differing block of ops is maximal
MaximalBlocks(ops) ==
  /\ \A k \in 1..(Len(ops) - 1) :
       /\ ~(ops[k][1] = "delete" /\ ops[k + 1][1] = "delete")
       /\ ~(ops[k][1] = "insert" /\ ops[k + 1][1] = "insert")
  /\ \A from \in 1..Len(ops), to \in 1..Len(ops) :
       IsBlock(ops, from, to) =>
         /\ CountIn(ops, "delete", from, to) <= 1
         /\ CountIn(ops, "insert", from, to) <= 1
  /\ \A k \in 1..Len(ops) : ops[k][1] # "equal" => ops[k][2] # <<>>

\* C21: in the output of the coalescing diffTokens no two deletes and no two
\* inserts are adjacent, and between two consecutive equal operations (or a
\* sequence end) there is at most one delete and at most one insert, each
\* carrying the joined contents of all the tokens of its block
C21_MaximalBlocks ==
  call = "diffTokens" =>
    /\ MaximalBlocks(diff)
    /\ Payloads(diff, {"equal", "delete"}) = Join(tokenize(baselineHTML))
    /\ Payloads(diff, {"equal", "insert"}) = Join(tokenize(currentHTML))

\* a coalescing diff with an equal operation and a block that holds a
\* delete and an insert, one of them carrying more than one token
C21_Witness ==
  /\ call = "diffTokens"
  /\ \E k \in 1..(Len(diff) - 1) :
       {diff[k][1], diff[k + 1][1]} = {"delete", "insert"}
  /\ CountIn(diff, "equal", 1, Len(diff)) >= 1
  /\ Len(tokenize(baselineHTML)) + Len(tokenize(currentHTML))
       > Len(diff) + CountIn(diff, "equal", 1, Len(diff))

\* C22: every modify operation of diffHTMLTokens stands for a baseline and a
\* current token that are both opening tags with the same extracted tag name,
\* and that name is not null: two differing '<...>' tokens without a tag
\* name are never a modify
C22_ModifyOnlyForNamedTags ==
  call = "diffHTMLTokens" =>
    LET base == tokenizeHTML(baselineHTML)
        cur  == tokenizeHTML(currentHTML)
    IN \A k \in 1..Len(diff) :
         diff[k][1] = "modify" =>
           LET oldToken == base[BaseIndex(diff, k) + 1]
               newToken == cur[CurIndex(diff, k) + 1]
           IN /\ IsOpeningTag(oldToken.content)
              /\ IsOpeningTag(newToken.content)
              /\ oldToken.tagName = newToken.tagName
              /\ oldToken.tagName # Null

\* the ids of the change the navigation is at
CurrentChangeIds ==
  IF currentIndex >= 0
  THEN {filteredChanges[currentIndex + 1].delId, filteredChanges[currentIndex + 1].addId}
  ELSE {}

\* currentIndex is -1 or an index of filteredChanges, and the highlighted
\* elements are those of filteredChanges[currentIndex]
NavigationInBounds ==
  call \in Viewers /\ view = "rendered" =>
    /\ -1 <= currentIndex
    /\ currentIndex <= Len(filteredChanges) - 1
    /\ highlight = CurrentChangeIds

\* a step in which the search box keeps its value is a click; one in which
\* the value changes is a search-input event
NavigationSteps ==
  call \in Viewers /\ view = "rendered" =>
    /\ searchValue' = searchValue /\ currentIndex' # currentIndex =>
         /\ currentIndex' \in 0..(Len(filteredChanges) - 1)
         /\ currentIndex' \in {currentIndex - 1, currentIndex + 1}
         /\ filteredChanges' = filteredChanges
    /\ searchValue' # searchValue => currentIndex' = -1

\* C23: once the side-by-side view has rendered, through next clicks,
\* previous clicks and search inputs, -1 <= currentIndex <=
\* filteredChanges.length - 1; a click never moves currentIndex outside
\* 0..filteredChanges.length - 1; every search-input event resets it to -1;
\* and the highlighted change is filteredChanges[currentIndex] exactly when
\* currentIndex >= 0
C23_NavigationInvariant == []NavigationInBounds /\ [][NavigationSteps]_vars

\* filteredChanges is allChanges with some entries left out, and it is
\* allChanges whenever the trimmed search term is empty
FilteredIsSublist ==
  call \in Viewers =>
    /\ IsSubseq(filteredChanges, allChanges)
    /\ trim(searchValue) = <<>> => filteredChanges = allChanges

\* rendering ends with filteredChanges a copy of allChanges, and no filter
\* or navigation event touches allChanges
AllChangesKept ==
  /\ call = "none" /\ view' = "rendered" => filteredChanges' = allChanges'
  /\ call \in Viewers => allChanges' = allChanges

\* C24: through filter and navigation events filteredChanges is an
\* order-preserving sub-list of allChanges; it equals allChanges right after
\* rendering and whenever the trimmed search term is empty; filtering and
\* navigation never add, remove or reorder entries of allChanges
C24_FilteredSublist == []FilteredIsSublist /\ [][AllChangesKept]_vars

\* C25: with captures and deletions interleaved, the write that ends a
\* capture or a deletion changes the record of its own URL alone: every
\* other URL has in the map after the write what it had right before it, so
\* no capture is lost and no deleted record comes back
WritesOwnUrlOnly ==
  \A p \in 1..Len(procs) :
    procs[p].kind \in {"capture", "delete"} /\ procs[p].pc = "set" /\ Ends(p) =>
      \A other \in Urls \ {procs[p].url} :
        Lookup(storage'.baselines, other) = Lookup(storage.baselines, other)

C25_NoLostUpdate == [][WritesOwnUrlOnly]_vars

\* C26: with comparison requests interleaved, a viewer that handleComparison
\* opened reads in its load handler the pair its own request stored, and the
\* pair is gone from storage once it has read it
ReadsOwnPair ==
  \A t \in 1..Len(tabs) :
    /\ Len(tabs') >= t
    /\ tabs[t].state = "opened"
    /\ tabs'[t].state # "opened"
    /\ tabs[t].stored # <<>>
    => /\ tabs'[t].read = tabs[t].stored
       /\ storage'.baselineData = NoRecord
       /\ storage'.currentData = NoRecord

C26_ViewerReadsOwnPair == [][ReadsOwnPair]_vars

====
